---- MODULE Spec2Model ----
(***************************************************************************)
(* A model of the sailTrim NMEA2000 pipeline: the time-windowed averager   *)
(* (data_averager.py), the navigation state store (navigation_data.py),    *)
(* the message parser (nmea200_parser.py) and the TCP client               *)
(* (tcp_client.py).  Each component has its own specification over the     *)
(* shared variable tuple; the other components' variables stay put.        *)
(***************************************************************************)
EXTENDS Integers, Sequences, FiniteSets, TLC

VARIABLES
    \* ---- DataAverager ----
    now,            \* datetime.now(), in whole minutes
    window,         \* self.window, in minutes
    data,           \* self.data: key -> deque (the key "timestamps" included)
    appended,       \* history: channel -> every <<value, arrival>> appended since the last clear
    adds,           \* number of add_data calls made (bounds the run)
    \* ---- NavigationData ----
    nav,            \* the NavigationData instance: field -> value
    navCall,        \* the last call made on it, with what it found
    heap,           \* the dict objects behind route_waypoints and the values route reads returned
    rt,             \* a thread inside update_route and a thread inside a route read: positions and locals
    \* ---- NMEA2000Parser ----
    raw,            \* the record given to parse_message: a sequence of bytes
    parsed,         \* what parse_message returned for it
    \* ---- NMEA2000TCPClient ----
    cli,            \* the client object: socket, connected, log_file, message_count
    socks,          \* the sockets made: state, number of releases, end of stream seen
    files,          \* the log files made: "unused", "open" or "closed"
    thr,            \* the receive threads: position in _receive_data and locals
    caller,         \* the thread calling connect() and disconnect(): position and locals
    obs,            \* what the callbacks and the log received
    budget          \* calls and stream bytes left to the run

avgVars == <<now, window, data, appended, adds>>
navVars == <<nav, navCall>>
parserVars == <<raw, parsed>>
clientVars == <<cli, socks, files, thr, caller, obs, budget>>

vars == <<now, window, data, appended, adds, nav, navCall, heap, rt, raw, parsed,
          cli, socks, files, thr, caller, obs, budget>>

\* what each component's steps leave alone
notAvg == <<navVars, heap, rt, parserVars, clientVars>>
notNav == <<avgVars, heap, rt, parserVars, clientVars>>
notParser == <<avgVars, navVars, heap, rt, clientVars>>
notClient == <<avgVars, navVars, heap, rt, parserVars>>
notStore == <<avgVars, rt, parserVars, clientVars>>
notRoute == <<avgVars, navCall, heap, parserVars, clientVars>>

\* ------------------------------------------------------------------------
\* Bounds
\* ------------------------------------------------------------------------
MaxTime == 4
MaxAdds == 3
MaxWindow == 2
MaxWaypointId == 2
MaxRouteLen == 2
MaxPayload == 45
MaxConnects == 2
MaxOps == 3
MaxBytes == 2
MaxStream == 4
MaxChunk == 2
MaxObjects == 3
MaxMessages == 3
MaxUpdates == 2

\* ------------------------------------------------------------------------
\* DataAverager (src/data_averager.py)
\* ------------------------------------------------------------------------
AWD == "absolute_wind_direction"

Channels ==
    {"vmg", "cog", "sog", "true_wind_speed", "true_wind_angle",
     "apparent_wind_speed", "apparent_wind_angle", AWD}

DataKeys == Channels \cup {"timestamps"}

\* the names add_data is called with: two channels the app feeds on a
\* CourseSpeed record, the wind direction channel, and a name that is no key
DataTypeInputs == {"cog", "sog", AWD, "heading"}

\* sample values, in degrees
Values == {10, 190, 350}

\* the periods get_wind_shift is asked about, in minutes
Periods == 1..(MaxWindow + 1)

HalfTurn == 180
FullTurn == 360

DataAverager_init(window_minutes) ==
    [k \in DataKeys |-> <<>>]

RECURSIVE SumSeq(_)
SumSeq(s) == IF s = <<>> THEN 0 ELSE Head(s) + SumSeq(Tail(s))

\* _cleanup_old_data: pop the shared timestamp and the head of every
\* non-empty channel while the oldest shared timestamp is before the cutoff
RECURSIVE cleanup_old_data(_, _)
cleanup_old_data(d, cutoff) ==
    IF d["timestamps"] # <<>> /\ Head(d["timestamps"]) < cutoff
    THEN cleanup_old_data(
             [k \in DOMAIN d |-> IF d[k] # <<>> THEN Tail(d[k]) ELSE d[k]],
             cutoff)
    ELSE d

\* add_data without the append to the shared timestamps
add_data_no_timestamp(d, data_type, value, t, w) ==
    IF data_type \in DOMAIN d
    THEN cleanup_old_data([d EXCEPT ![data_type] = Append(@, value)], t - w)
    ELSE d

add_data_no_cleanup(d, data_type, value, t, w) ==
    IF data_type \in DOMAIN d
    THEN [d EXCEPT ![data_type] = Append(@, value),
                   !["timestamps"] = Append(@, t)]
    ELSE d

\* add_data with timestamp=None (every caller of the repository): the
\* timestamp is datetime.now()
add_data(d, data_type, value, t, w) ==
    IF data_type \in DOMAIN d
    THEN cleanup_old_data(
             [d EXCEPT ![data_type] = Append(@, value),
                       !["timestamps"] = Append(@, t)],
             t - w)
    ELSE d

\* get_average: sum/len as the fraction <<sum, len>>; the sentinel 0 is <<0, 1>>
get_average(d, data_type) ==
    IF data_type \in DOMAIN d /\ d[data_type] # <<>>
    THEN <<SumSeq(d[data_type]), Len(d[data_type])>>
    ELSE <<0, 1>>

\* the loop of get_wind_shift that collects wind_values, from index i on
\* (Python index i-1)
RECURSIVE wind_values_from(_, _, _, _)
wind_values_from(ts, awd, cutoff, i) ==
    IF i > Len(ts) THEN <<>>
    ELSE IF ts[i] >= cutoff /\ i <= Len(awd)
         THEN <<awd[i]>> \o wind_values_from(ts, awd, cutoff, i + 1)
         ELSE wind_values_from(ts, awd, cutoff, i + 1)

normalize_shift_skipped(diff) == diff

normalize_shift(diff) ==
    IF diff > HalfTurn THEN diff - FullTurn
    ELSE IF diff < -HalfTurn THEN diff + FullTurn
    ELSE diff

get_wind_shift_drop_filter(d, t, minutes) ==
    IF AWD \notin DOMAIN d \/ d[AWD] = <<>> THEN 0
    ELSE LET wind_values == d[AWD]
         IN  IF Len(wind_values) < 2 THEN 0
             ELSE normalize_shift(wind_values[Len(wind_values)] - wind_values[1])

get_wind_shift(d, t, minutes) ==
    IF AWD \notin DOMAIN d \/ d[AWD] = <<>> THEN 0
    ELSE LET cutoff == t - minutes
             wind_values == wind_values_from(d["timestamps"], d[AWD], cutoff, 1)
         IN  IF Len(wind_values) < 2 THEN 0
             ELSE normalize_shift(wind_values[Len(wind_values)] - wind_values[1])

get_data_count(d) == Len(d["timestamps"])

clear_all_data(d) == [k \in DOMAIN d |-> <<>>]


\* ------------------------------------------------------------------------
\* NavigationData (src/navigation_data.py)
\* ------------------------------------------------------------------------
\* an optional argument: None is the empty sequence, a value v is <<v>>
None == <<>>
Some(v) == <<v>>

\* text is the sequence of its character codes
RECURSIVE Digits(_)
Digits(n) == IF n < 10 THEN <<48 + n>> ELSE Digits(n \div 10) \o <<48 + (n % 10)>>

\* f"WP{waypoint_id}"
WPName(waypoint_id) == <<87, 80>> \o Digits(waypoint_id)

\* "N/A"
NotAvailable == <<78, 47, 65>>

NavigationData_init ==
    [current_cog |-> 0, current_sog |-> 0, current_vmg |-> 0,
     true_wind_speed |-> 0, true_wind_angle |-> 0,
     apparent_wind_speed |-> 0, apparent_wind_angle |-> 0,
     absolute_wind_direction |-> 0,
     latitude |-> 0, longitude |-> 0,
     current_waypoint |-> NotAvailable, current_waypoint_id |-> 0,
     bearing_to_waypoint |-> 0, distance_to_waypoint |-> 0,
     next_waypoint |-> NotAvailable, next_waypoint_id |-> 0,
     course_to_next |-> 0,
     destination_latitude |-> 0, destination_longitude |-> 0,
     cross_track_error |-> 0,
     current_route_id |-> 0,
     route_waypoints |-> <<>>,
     waypoint_sequence |-> <<>>,
     wind_shift_1min |-> 0, wind_shift_5min |-> 0, wind_shift_10min |-> 0]

\* "if arg is not None: self.field = arg"
Patch(old, arg) == IF arg # None THEN arg[1] ELSE old

update_navigation(n, cog, sog, vmg) ==
    [n EXCEPT !.current_cog = Patch(@, cog),
              !.current_sog = Patch(@, sog),
              !.current_vmg = Patch(@, vmg)]

update_wind(n, true_speed, true_angle, apparent_speed, apparent_angle) ==
    LET m == [n EXCEPT !.true_wind_speed = Patch(@, true_speed),
                       !.true_wind_angle = Patch(@, true_angle),
                       !.apparent_wind_speed = Patch(@, apparent_speed),
                       !.apparent_wind_angle = Patch(@, apparent_angle)]
    IN  [m EXCEPT !.absolute_wind_direction =
                      (m.true_wind_angle + m.current_cog) % FullTurn]

update_position(n, latitude, longitude) ==
    [n EXCEPT !.latitude = Patch(@, latitude),
              !.longitude = Patch(@, longitude)]

\* the keyword arguments of update_waypoint, as a record of optionals
NoWaypointArgs ==
    [current_wp |-> None, bearing |-> None, distance |-> None, next_wp |-> None,
     course_to_next |-> None, waypoint_id |-> None, dest_lat |-> None,
     dest_lon |-> None, xte |-> None]

update_waypoint(n, a) ==
    [n EXCEPT !.current_waypoint = Patch(@, a.current_wp),
              !.bearing_to_waypoint = Patch(@, a.bearing),
              !.distance_to_waypoint = Patch(@, a.distance),
              !.next_waypoint = Patch(@, a.next_wp),
              !.course_to_next = Patch(@, a.course_to_next),
              !.current_waypoint_id = Patch(@, a.waypoint_id),
              !.destination_latitude = Patch(@, a.dest_lat),
              !.destination_longitude = Patch(@, a.dest_lon),
              !.cross_track_error = Patch(@, a.xte)]

\* "x in list"
InList(x, list) == \E i \in 1..Len(list) : list[i] = x

\* dict[key] = value
DictSet(dict, key, value) ==
    [k \in (DOMAIN dict) \cup {key} |-> IF k = key THEN value ELSE dict[k]]

add_route_waypoint_always_append(n, waypoint_id, latitude, longitude, name) ==
    LET nm == IF name = None THEN WPName(waypoint_id) ELSE name[1]
    IN  [n EXCEPT !.route_waypoints =
                      DictSet(@, waypoint_id,
                              [latitude |-> latitude, longitude |-> longitude, name |-> nm]),
                  !.waypoint_sequence = Append(@, waypoint_id)]

add_route_waypoint(n, waypoint_id, latitude, longitude, name) ==
    LET nm == IF name = None THEN WPName(waypoint_id) ELSE name[1]
    IN  [n EXCEPT !.route_waypoints =
                      DictSet(@, waypoint_id,
                              [latitude |-> latitude, longitude |-> longitude, name |-> nm]),
                  !.waypoint_sequence =
                      IF ~InList(waypoint_id, @) THEN Append(@, waypoint_id) ELSE @]

\* the loop of update_route over waypoints_list (wp.get('name') is None
\* when the entry has no name)
RECURSIVE add_all(_, _)
add_all(n, waypoints_list) ==
    IF waypoints_list = <<>> THEN n
    ELSE LET wp == Head(waypoints_list)
         IN  add_all(add_route_waypoint(n, wp.waypoint_id, wp.latitude,
                                        wp.longitude, wp.name),
                     Tail(waypoints_list))

update_route_extend(n, route_id, waypoints_list) ==
    LET m == [n EXCEPT !.current_route_id = Patch(@, route_id)]
    IN  IF waypoints_list # None THEN add_all(m, waypoints_list[1]) ELSE m

update_route_keep_sequence(n, route_id, waypoints_list) ==
    LET m == [n EXCEPT !.current_route_id = Patch(@, route_id)]
    IN  IF waypoints_list # None
        THEN add_all([m EXCEPT !.route_waypoints = <<>>], waypoints_list[1])
        ELSE m

update_route(n, route_id, waypoints_list) ==
    LET m == [n EXCEPT !.current_route_id = Patch(@, route_id)]
    IN  IF waypoints_list # None
        THEN add_all([m EXCEPT !.route_waypoints = <<>>, !.waypoint_sequence = <<>>],
                     waypoints_list[1])
        ELSE m

get_waypoint_coordinates(n, waypoint_id) ==
    IF waypoint_id \in DOMAIN n.route_waypoints
    THEN <<Some(n.route_waypoints[waypoint_id].latitude),
           Some(n.route_waypoints[waypoint_id].longitude)>>
    ELSE <<None, None>>

\* list.index(x): the first position of x (from 0), or ValueError
list_index(list, x) ==
    IF InList(x, list)
    THEN [raises |-> "", index |-> (CHOOSE i \in 1..Len(list) :
                                        /\ list[i] = x
                                        /\ \A j \in 1..(i - 1) : list[j] # x) - 1]
    ELSE [raises |-> "ValueError", index |-> 0]

\* the body of the try block of get_next_waypoint_in_route, given the index
next_after(n, current_index) ==
    IF current_index + 1 < Len(n.waypoint_sequence)
    THEN LET next_wp_id == n.waypoint_sequence[current_index + 2]
         IN  IF next_wp_id \in DOMAIN n.route_waypoints
             THEN Some(n.route_waypoints[next_wp_id])
             ELSE None
    ELSE None

get_next_waypoint_in_route_uncaught(n) ==
    LET r == list_index(n.waypoint_sequence, n.current_waypoint_id)
    IN  IF r.raises # ""
        THEN [raised |-> r.raises, value |-> None]
        ELSE [raised |-> "", value |-> next_after(n, r.index)]

\* the result: the exception it lets out ("" for none) and the value returned
get_next_waypoint_in_route(n) ==
    LET r == list_index(n.waypoint_sequence, n.current_waypoint_id)
    IN  IF r.raises # ""
        THEN IF r.raises \in {"ValueError", "IndexError"}
             THEN [raised |-> "", value |-> None]
             ELSE [raised |-> r.raises, value |-> None]
        ELSE [raised |-> "", value |-> next_after(n, r.index)]

\* ---- update_route and the route reads, statement by statement ----
\* wpc, wlist, wi: the writer's position in update_route, its waypoints_list
\* and the index of the entry its loop is at; left: update_route calls to
\* come.  rpc, rloc: the reader's position in get_route_summary or
\* get_next_waypoint_in_route and its locals; valid: the complete routes
\* the store held or was being given while the read ran; done: the last
\* finished read, with what it returned or raised and the routes valid
\* for it.
NoRead == [kind |-> "none"]

RouteThreadsIdle ==
    [wpc |-> "idle", wlist |-> <<>>, wi |-> 0, wprev |-> <<>>, wnew |-> <<>>,
     left |-> 0,
     rpc |-> "idle", rloc |-> <<>>, valid |-> {}, done |-> NoRead]

\* the route a store holds
RouteOf(n) == [sequence |-> n.waypoint_sequence, waypoints |-> n.route_waypoints]

\* ---- object identity in the route store ----
\* route_waypoints maps a waypoint id to a dict object.  objs numbers the
\* dict objects made so far (an object is its position in objs) and holds
\* their contents; store is route_waypoints as references.  summary and
\* next_wp are the values the last get_route_summary and
\* get_next_waypoint_in_route calls returned, as their caller holds them.
Heap_init ==
    [objs |-> <<>>, store |-> <<>>, summary |-> None, next_wp |-> None]

\* route_waypoints with every reference followed
Deref(h, refs) == [id \in DOMAIN refs |-> h.objs[refs[id]]]

\* "self.route_waypoints[waypoint_id] = {...}": a new dict object
heap_add_route_waypoint(h, waypoint_id, latitude, longitude, name) ==
    LET nm == IF name = None THEN WPName(waypoint_id) ELSE name[1]
    IN  [h EXCEPT !.objs = Append(@, [latitude |-> latitude,
                                      longitude |-> longitude, name |-> nm]),
                  !.store = DictSet(@, waypoint_id, Len(h.objs) + 1)]

RECURSIVE heap_add_all(_, _)
heap_add_all(h, waypoints_list) ==
    IF waypoints_list = <<>> THEN h
    ELSE LET wp == Head(waypoints_list)
         IN  heap_add_all(heap_add_route_waypoint(h, wp.waypoint_id, wp.latitude,
                                                  wp.longitude, wp.name),
                          Tail(waypoints_list))

\* "self.route_waypoints.clear()" empties the dict in place, then the loop
heap_update_route(h, waypoints_list) ==
    IF waypoints_list # None
    THEN heap_add_all([h EXCEPT !.store = <<>>], waypoints_list[1])
    ELSE h

\* get_route_summary: list.copy() and dict.copy() make a new list and a new
\* dict that hold the same waypoint dict objects
get_route_summary(n, h) ==
    [route_id |-> n.current_route_id,
     total |-> Cardinality(DOMAIN h.store),
     sequence |-> n.waypoint_sequence,
     waypoints |-> h.store]

\* get_next_waypoint_in_route returns self.route_waypoints[next_wp_id], the
\* stored dict object itself
next_waypoint_ref(n, h) ==
    LET r == list_index(n.waypoint_sequence, n.current_waypoint_id)
    IN  IF r.raises = "" /\ r.index + 1 < Len(n.waypoint_sequence)
           /\ n.waypoint_sequence[r.index + 2] \in DOMAIN h.store
        THEN Some(h.store[n.waypoint_sequence[r.index + 2]])
        ELSE None

\* ------------------------------------------------------------------------
\* NMEA2000Parser (src/nmea200_parser.py)
\* ------------------------------------------------------------------------
\* a bytes object is a sequence of bytes 0..255

\* Python's data[a:b] for 0 <= a <= b: shorter when data is
Slice(bs, a, b) ==
    IF a >= Len(bs) THEN <<>>
    ELSE SubSeq(bs, a + 1, IF b < Len(bs) THEN b ELSE Len(bs))

\* struct.unpack('<H'), ('<I'), ('<i') of a slice of the right size
U16LE(bs) == bs[1] + 256 * bs[2]
U32LE(bs) == bs[1] + 256 * bs[2] + 65536 * bs[3] + 16777216 * bs[4]
S32LE(bs) ==
    bs[1] + 256 * bs[2] + 65536 * bs[3]
    + 16777216 * (IF bs[4] >= 128 THEN bs[4] - 256 ELSE bs[4])

\* raw * 0.0001 * 180 / math.pi, in thousandths of a degree (rounded down
\* term by term: 0.0001 rad is 5.729578 thousandths of a degree)
RadToDeg(r) == r * 5 + (r * 729) \div 1000 + (r * 578) \div 1000000

\* bytes.hex(): two lower-case hexadecimal digits per byte
HexDigit(n) == IF n < 10 THEN 48 + n ELSE 87 + n

RECURSIVE Hex(_)
Hex(bs) ==
    IF bs = <<>> THEN <<>>
    ELSE <<HexDigit(Head(bs) \div 16), HexDigit(Head(bs) % 16)>> \o Hex(Tail(bs))

\* bytes.find(b'\x00'): the first index of a zero byte, -1 when there is none
RECURSIVE FindNull(_, _)
FindNull(bs, i) ==
    IF i > Len(bs) THEN -1
    ELSE IF bs[i] = 0 THEN i - 1
    ELSE FindNull(bs, i + 1)

\* bytes.decode('ascii', errors='ignore'): bytes above 127 are dropped
DecodeAscii(bs) == SelectSeq(bs, LAMBDA b : b < 128)

\* the results: None, a dict (kind is its 'type'), or an exception let out
NoneResult == [kind |-> "None"]
Raised(e) == [kind |-> "raise", error |-> e]

\* every slice handed to struct.unpack has the size of its format, else
\* struct.error
Unpacked(slices, r) ==
    IF \A i \in 1..Len(slices) : Len(slices[i][1]) = slices[i][2]
    THEN r ELSE Raised("struct.error")

parse_position_rapid_update(d) ==
    IF Len(d) < 8 THEN NoneResult
    ELSE LET lat == Slice(d, 0, 4)
             lon == Slice(d, 4, 8)
         IN  Unpacked(<<<<lat, 4>>, <<lon, 4>>>>,
                 [kind |-> "position", latitude |-> S32LE(lat), longitude |-> S32LE(lon)])

parse_cog_sog_rapid_update(d) ==
    IF Len(d) < 8 THEN NoneResult
    ELSE LET cog == Slice(d, 2, 4)
             sog == Slice(d, 4, 6)
         IN  Unpacked(<<<<cog, 2>>, <<sog, 2>>>>,
                 [kind |-> "navigation", cog |-> RadToDeg(U16LE(cog)), sog |-> U16LE(sog)])

parse_wind_data(d) ==
    IF Len(d) < 6 THEN NoneResult
    ELSE LET speed == Slice(d, 0, 2)
             angle == Slice(d, 2, 4)
         IN  Unpacked(<<<<speed, 2>>, <<angle, 2>>>>,
                 IF Len(d) < 5 THEN Raised("IndexError")
                 ELSE [kind |-> "wind", speed |-> U16LE(speed),
                       angle |-> RadToDeg(U16LE(angle)),
                       reference |-> IF d[5] % 8 = 2 THEN "apparent" ELSE "true"])

parse_navigation_data(d) ==
    IF Len(d) < 8 THEN NoneResult
    ELSE LET bearing == Slice(d, 4, 6)
             distance == Slice(d, 0, 4)
         IN  Unpacked(<<<<bearing, 2>>, <<distance, 4>>>>,
                 [kind |-> "waypoint_nav",
                  bearing_to_waypoint |-> RadToDeg(U16LE(bearing)),
                  distance_to_waypoint |-> U32LE(distance)])

parse_route_waypoint_info(d) ==
    IF Len(d) < 8 THEN NoneResult
    ELSE LET id == Slice(d, 0, 2)
             name_data == Slice(d, 8, Len(d))
             null_pos == FindNull(name_data, 1)
         IN  Unpacked(<<<<id, 2>>>>,
                 [kind |-> "waypoint_info",
                  waypoint_id |-> U16LE(id),
                  name |-> IF Len(d) > 8 /\ null_pos > 0
                           THEN DecodeAscii(Slice(name_data, 0, null_pos))
                           ELSE WPName(U16LE(id))])

parse_cross_track_error(d) ==
    IF Len(d) < 6 THEN NoneResult
    ELSE LET xte == Slice(d, 1, 5)
         IN  Unpacked(<<<<xte, 4>>>>,
                 [kind |-> "cross_track_error",
                  xte |-> S32LE(xte),
                  xte_mode |-> d[1] % 16,
                  nav_terminated |-> ((d[1] \div 64) % 2 = 1)])

parse_navigation_route_info_short_guard(d) ==
    IF Len(d) < 14 THEN NoneResult
    ELSE LET route == Slice(d, 0, 2)
             wp == Slice(d, 2, 4)
             distance == Slice(d, 4, 8)
             bearing == Slice(d, 8, 10)
             lat == Slice(d, 10, 14)
         IN  Unpacked(<<<<route, 2>>, <<wp, 2>>, <<distance, 4>>, <<bearing, 2>>, <<lat, 4>>>>,
                 [kind |-> "navigation_route_info",
                  route_id |-> U16LE(route),
                  waypoint_id |-> U16LE(wp),
                  distance_to_waypoint |-> U32LE(distance),
                  bearing_to_waypoint |-> RadToDeg(U16LE(bearing)),
                  destination_latitude |-> S32LE(lat),
                  destination_longitude |-> None])

\* destination_longitude: None when the key is left out of the dict
parse_navigation_route_info(d) ==
    IF Len(d) < 16 THEN NoneResult
    ELSE LET route == Slice(d, 0, 2)
             wp == Slice(d, 2, 4)
             distance == Slice(d, 4, 8)
             bearing == Slice(d, 8, 10)
             lat == Slice(d, 10, 14)
             lon == Slice(d, 14, 18)
         IN  Unpacked(<<<<route, 2>>, <<wp, 2>>, <<distance, 4>>, <<bearing, 2>>, <<lat, 4>>>>
                          \o (IF Len(d) >= 18 THEN <<<<lon, 4>>>> ELSE <<>>),
                 [kind |-> "navigation_route_info",
                  route_id |-> U16LE(route),
                  waypoint_id |-> U16LE(wp),
                  distance_to_waypoint |-> U32LE(distance),
                  bearing_to_waypoint |-> RadToDeg(U16LE(bearing)),
                  destination_latitude |-> S32LE(lat),
                  destination_longitude |->
                      IF Len(d) >= 18 THEN Some(S32LE(lon)) ELSE None])

parse_waypoint_list(d) ==
    IF Len(d) < 8 THEN NoneResult
    ELSE [kind |-> "waypoint_list", raw_data |-> Hex(d), length |-> Len(d)]

\* the while loop of parse_route_waypoint_database, from offset on; a
\* struct.error inside it is swallowed by the bare except and ends the loop
RECURSIVE waypoints_from_strict(_, _)
waypoints_from_strict(d, offset) ==
    IF offset + 16 < Len(d)
    THEN LET id == Slice(d, offset, offset + 2)
             lat == Slice(d, offset + 2, offset + 6)
             lon == Slice(d, offset + 6, offset + 10)
         IN  IF Len(id) = 2 /\ Len(lat) = 4 /\ Len(lon) = 4
             THEN <<[waypoint_id |-> U16LE(id), latitude |-> S32LE(lat),
                     longitude |-> S32LE(lon), name |-> WPName(U16LE(id))]>>
                  \o waypoints_from_strict(d, offset + 16)
             ELSE <<>>
    ELSE <<>>

RECURSIVE waypoints_from(_, _)
waypoints_from(d, offset) ==
    IF offset + 16 <= Len(d)
    THEN LET id == Slice(d, offset, offset + 2)
             lat == Slice(d, offset + 2, offset + 6)
             lon == Slice(d, offset + 6, offset + 10)
         IN  IF Len(id) = 2 /\ Len(lat) = 4 /\ Len(lon) = 4
             THEN <<[waypoint_id |-> U16LE(id), latitude |-> S32LE(lat),
                     longitude |-> S32LE(lon), name |-> WPName(U16LE(id))]>>
                  \o waypoints_from(d, offset + 16)
             ELSE <<>>
    ELSE <<>>

parse_route_waypoint_database(d) ==
    IF Len(d) < 8 THEN NoneResult
    ELSE LET db == Slice(d, 0, 2)
             route == Slice(d, 2, 4)
         IN  Unpacked(<<<<db, 2>>, <<route, 2>>>>,
                 [kind |-> "route_waypoint_database",
                  database_id |-> U16LE(db),
                  route_id |-> U16LE(route),
                  nav_direction |-> d[5] % 8,
                  supplementary_route |-> ((d[5] \div 8) % 2 = 1),
                  waypoints |-> waypoints_from(d, 8)])

\* self.pgn_parsers
PGN_POSITION == 129025
PGN_COG_SOG == 129026
PGN_WIND == 130306
PGN_NAVIGATION == 129284
PGN_WAYPOINT_INFO == 129285
PGN_XTE == 129283
PGN_ROUTE_INFO == 129281
PGN_WAYPOINT_LIST == 129540
PGN_ROUTE_DATABASE == 130074

pgn_parsers ==
    {PGN_POSITION, PGN_COG_SOG, PGN_WIND, PGN_NAVIGATION, PGN_WAYPOINT_INFO,
     PGN_XTE, PGN_ROUTE_INFO, PGN_WAYPOINT_LIST, PGN_ROUTE_DATABASE}

\* self.pgn_parsers[pgn](data)
call_parser(pgn, d) ==
    CASE pgn = PGN_POSITION -> parse_position_rapid_update(d)
      [] pgn = PGN_COG_SOG -> parse_cog_sog_rapid_update(d)
      [] pgn = PGN_WIND -> parse_wind_data(d)
      [] pgn = PGN_NAVIGATION -> parse_navigation_data(d)
      [] pgn = PGN_WAYPOINT_INFO -> parse_route_waypoint_info(d)
      [] pgn = PGN_XTE -> parse_cross_track_error(d)
      [] pgn = PGN_ROUTE_INFO -> parse_navigation_route_info(d)
      [] pgn = PGN_WAYPOINT_LIST -> parse_waypoint_list(d)
      [] pgn = PGN_ROUTE_DATABASE -> parse_route_waypoint_database(d)

\* (struct.unpack('>I', raw_data[:4])[0] >> 8) & 0x1FFFF: the low 17 bits of
\* the first three bytes
pgn_of(raw_data) ==
    (raw_data[1] * 65536 + raw_data[2] * 256 + raw_data[3]) % 131072

parse_message_payload_hex(raw_data) ==
    IF Len(raw_data) < 8 THEN NoneResult
    ELSE LET pgn == pgn_of(raw_data)
             d == Slice(raw_data, 8, Len(raw_data))
             r == IF pgn \in pgn_parsers
                  THEN call_parser(pgn, d)
                  ELSE [kind |-> "unrecognized", pgn |-> pgn, raw |-> Hex(d)]
         IN  IF r.kind = "raise" THEN [kind |-> "error", error |-> r.error] ELSE r

parse_message(raw_data) ==
    IF Len(raw_data) < 8 THEN NoneResult
    ELSE LET pgn == pgn_of(raw_data)
             d == Slice(raw_data, 8, Len(raw_data))
             r == IF pgn \in pgn_parsers
                  THEN call_parser(pgn, d)
                  ELSE [kind |-> "unrecognized", pgn |-> pgn, raw |-> Hex(raw_data)]
         IN  IF r.kind = "raise" THEN [kind |-> "error", error |-> r.error] ELSE r

\* ------------------------------------------------------------------------
\* NMEA2000App (src/nmea2000_app.py) and the bearing calculation
\* ------------------------------------------------------------------------
\* The store's and the averager's angles are whole degrees in the model: a
\* parsed angle, in thousandths of a degree, rounded down.  Rounding down
\* keeps an angle on its side of 0 and of 360.
Degrees(thousandths) == thousandths \div 1000

\* _calculate_bearing: "bearing = (bearing + 360) % 360" applied to
\* math.degrees(math.atan2(y, x)), which is given as atan
calculate_bearing(atan) == (atan + FullTurn) % FullTurn

\* calculate_course_to_next_waypoint without the test of the destination
\* position
calculate_course_without_destination_test(n, atan) ==
    IF n.current_waypoint_id \in DOMAIN n.route_waypoints
    THEN LET next_wp == get_next_waypoint_in_route(n).value
         IN  IF next_wp # None
             THEN [n EXCEPT !.course_to_next = calculate_bearing(atan),
                            !.next_waypoint = next_wp[1].name,
                            !.next_waypoint_id = 0]
             ELSE n
    ELSE n

\* next_wp.get('waypoint_id', 0): the stored dicts have no such key
calculate_course_to_next_waypoint(n, atan) ==
    IF /\ n.current_waypoint_id \in DOMAIN n.route_waypoints
       /\ n.destination_latitude # 0
       /\ n.destination_longitude # 0
    THEN LET next_wp == get_next_waypoint_in_route(n).value
         IN  IF next_wp # None
             THEN [n EXCEPT !.course_to_next = calculate_bearing(atan),
                            !.next_waypoint = next_wp[1].name,
                            !.next_waypoint_id = 0]
             ELSE n
    ELSE n

\* the averager with its history: one add_data call
Feed(a, data_type, value, t, w) ==
    [data |-> add_data(a.data, data_type, value, t, w),
     appended |-> IF data_type \in Channels
                  THEN [a.appended EXCEPT ![data_type] = Append(@, <<value, t>>)]
                  ELSE a.appended,
     adds |-> a.adds + 1]

\* parsed['waypoints'] as update_route reads it: wp.get('name')
WithNames(waypoints) ==
    [i \in 1..Len(waypoints) |-> [waypoints[i] EXCEPT !.name = Some(@)]]

\* _process_parsed_message: the store n and the averager a after it
process_parsed_message(n, a, p, t, w, atan) ==
    CASE p.kind = "navigation" ->
             LET cog == Degrees(p.cog)
                 n1 == update_navigation(n, Some(cog), None, None)
                 a1 == Feed(a, "cog", cog, t, w)
                 n2 == update_navigation(n1, None, Some(p.sog), None)
                 a2 == Feed(a1, "sog", p.sog, t, w)
                 n3 == update_navigation(n2, None, None, Some(p.sog))
                 a3 == Feed(a2, "vmg", p.sog, t, w)
             IN  [nav |-> n3, avg |-> a3]
      [] p.kind = "wind" /\ p.reference = "true" ->
             LET angle == Degrees(p.angle)
                 n1 == update_wind(n, Some(p.speed), Some(angle), None, None)
                 a1 == Feed(a, "true_wind_speed", p.speed, t, w)
                 a2 == Feed(a1, "true_wind_angle", angle, t, w)
                 absolute_wind_dir == (angle + n1.current_cog) % FullTurn
                 a3 == Feed(a2, AWD, absolute_wind_dir, t, w)
             IN  [nav |-> n1, avg |-> a3]
      [] p.kind = "wind" /\ p.reference # "true" ->
             LET angle == Degrees(p.angle)
                 n1 == update_wind(n, None, None, Some(p.speed), Some(angle))
                 a1 == Feed(a, "apparent_wind_speed", p.speed, t, w)
                 a2 == Feed(a1, "apparent_wind_angle", angle, t, w)
             IN  [nav |-> n1, avg |-> a2]
      [] p.kind = "waypoint_nav" ->
             [nav |-> update_waypoint(n,
                          [NoWaypointArgs EXCEPT
                               !.bearing = Some(Degrees(p.bearing_to_waypoint)),
                               !.distance = Some(p.distance_to_waypoint)]),
              avg |-> a]
      [] p.kind = "waypoint_info" ->
             [nav |-> update_waypoint(n,
                          [NoWaypointArgs EXCEPT !.current_wp = Some(p.name),
                                                 !.waypoint_id = Some(p.waypoint_id)]),
              avg |-> a]
      [] p.kind = "navigation_route_info" ->
             LET n1 == update_waypoint(n,
                           [NoWaypointArgs EXCEPT
                                !.waypoint_id = Some(p.waypoint_id),
                                !.bearing = Some(Degrees(p.bearing_to_waypoint)),
                                !.distance = Some(p.distance_to_waypoint),
                                !.dest_lat = Some(p.destination_latitude),
                                !.dest_lon = IF p.destination_longitude = None
                                             THEN Some(0)
                                             ELSE p.destination_longitude])
             IN  [nav |-> calculate_course_to_next_waypoint(n1, atan), avg |-> a]
      [] p.kind = "cross_track_error" ->
             [nav |-> update_waypoint(n, [NoWaypointArgs EXCEPT !.xte = Some(p.xte)]),
              avg |-> a]
      [] p.kind = "route_waypoint_database" ->
             [nav |-> update_route(n, Some(p.route_id), Some(WithNames(p.waypoints))),
              avg |-> a]
      [] p.kind = "position" ->
             [nav |-> update_position(n, Some(p.latitude), Some(p.longitude)),
              avg |-> a]
      [] OTHER -> [nav |-> n, avg |-> a]

\* on_message_received without "if not parsed: return"
on_message_received_without_test(n, a, raw_data, t, w, atan) ==
    LET p == parse_message(raw_data)
    IN  IF p.kind = "None"
        THEN [nav |-> update_navigation(n, Some(0), None, None),
              avg |-> Feed(a, "cog", 0, t, w)]
        ELSE process_parsed_message(n, a, p, t, w, atan)

\* on_message_received: "if not parsed: return"
on_message_received(n, a, raw_data, t, w, atan) ==
    LET p == parse_message(raw_data)
    IN  IF p.kind = "None" THEN [nav |-> n, avg |-> a]
        ELSE process_parsed_message(n, a, p, t, w, atan)

\* ------------------------------------------------------------------------
\* NMEA2000TCPClient (src/tcp_client.py)
\* ------------------------------------------------------------------------
\* Sockets, log files and receive threads are numbered by the connect()
\* call that made them; 0 stands for None.
NoSocket == 0
NoFile == 0
NEWLINE == 10

\* the bytes a peer sends: the record separator and two payload bytes
StreamBytes == {NEWLINE, 65, 66}

\* what one recv(1024) can return: a non-empty piece of the stream
Chunks == UNION {[1..n -> StreamBytes] : n \in 1..MaxChunk}

ConnectCalls == 1..MaxConnects

NMEA2000TCPClient_init ==
    [socket |-> NoSocket, connected |-> FALSE, log_file |-> NoFile,
     message_count |-> 0]

\* a receive thread's position in _receive_data and its locals; got, reads,
\* logged and handed are the history of the bytes its recv calls returned,
\* of how many calls returned bytes, of the lines it wrote to a log file and
\* of what it gave to the message callback; last is how its latest recv
\* call ended and how is what ended its loop
ThreadNotStarted ==
    [pc |-> "none", buffer |-> <<>>, line |-> <<>>, rsock |-> NoSocket,
     got |-> <<>>, reads |-> 0, logged |-> <<>>, handed |-> <<>>, last |-> "",
     how |-> ""]

\* "b'\n' in buffer"
HasNewline(buffer) == \E i \in 1..Len(buffer) : buffer[i] = NEWLINE

FirstNewline(buffer) ==
    CHOOSE i \in 1..Len(buffer) :
        /\ buffer[i] = NEWLINE
        /\ \A j \in 1..(i - 1) : buffer[j] # NEWLINE

\* buffer.split(b'\n', 1): <<line, rest>>
split_first(buffer) ==
    <<SubSeq(buffer, 1, FirstNewline(buffer) - 1),
      SubSeq(buffer, FirstNewline(buffer) + 1, Len(buffer))>>

\* "if line:" in the loop over complete messages
line_accepted_any(line) == TRUE

line_accepted(line) == line # <<>>

\* ---- the components as constructed ----
AveragerConstructed ==
    /\ now = 0
    /\ window = 1
    /\ data = DataAverager_init(window)
    /\ appended = [c \in Channels |-> <<>>]
    /\ adds = 0

NavConstructed ==
    /\ nav = NavigationData_init
    /\ navCall = [op |-> "init"]
    /\ heap = Heap_init
    /\ rt = RouteThreadsIdle

ParserConstructed ==
    /\ raw = <<>>
    /\ parsed = [kind |-> "None"]

ClientConstructed ==
    /\ cli = NMEA2000TCPClient_init
    /\ socks = [k \in ConnectCalls |-> [st |-> "unused", closes |-> 0, eof |-> FALSE]]
    /\ files = [k \in ConnectCalls |-> "unused"]
    /\ thr = [k \in ConnectCalls |-> ThreadNotStarted]
    /\ caller = [pc |-> "idle", made |-> 0, k |-> 0, dsock |-> NoSocket, returned |-> ""]
    /\ obs = [statuses |-> <<>>, delivered |-> <<>>, log |-> <<>>, notified |-> {}]

ClientIdle ==
    /\ ClientConstructed
    /\ budget = [ops |-> 0, bytes |-> 0]

\* ---- DataAverager actions ----
InitAverager ==
    /\ now = 0
    /\ window \in 1..MaxWindow
    /\ data = DataAverager_init(window)
    /\ appended = [c \in Channels |-> <<>>]
    /\ adds = 0
    /\ NavConstructed
    /\ ParserConstructed
    /\ ClientIdle

AddData(data_type, value) ==
    /\ adds < MaxAdds
    /\ adds' = adds + 1
    /\ data' = add_data(data, data_type, value, now, window)
    /\ appended' = IF data_type \in Channels
                   THEN [appended EXCEPT ![data_type] = Append(@, <<value, now>>)]
                   ELSE appended
    /\ UNCHANGED <<now, window>>
    /\ UNCHANGED notAvg

ClearAllData ==
    /\ data' = clear_all_data(data)
    /\ appended' = [c \in Channels |-> <<>>]
    /\ UNCHANGED <<now, window, adds>>
    /\ UNCHANGED notAvg

\* a minute passes
Tick ==
    /\ now < MaxTime
    /\ now' = now + 1
    /\ UNCHANGED <<window, data, appended, adds>>
    /\ UNCHANGED notAvg

NextAverager ==
    \/ \E data_type \in DataTypeInputs, value \in Values : AddData(data_type, value)
    \/ ClearAllData
    \/ Tick

SpecAverager == InitAverager /\ [][NextAverager]_vars

\* add_data called with every kind of name: a channel, the key 'timestamps'
\* (with a datetime as its value) and a name that is no key
NextNames ==
    \/ \E data_type \in {"cog", AWD}, value \in Values : AddData(data_type, value)
    \/ \E value \in Values : AddData("heading", value)
    \/ AddData("timestamps", now)
    \/ Tick

SpecNames == InitAverager /\ [][NextNames]_vars

\* ---- inputs ----
Angles == {30, 350}
Speeds == {5}
WaypointIds == 1..MaxWaypointId
Latitudes == {10, 20}
Longitudes == {40}
Names == {None, Some(<<77>>)}
RouteIds == {7}

WaypointEntries ==
    [waypoint_id : WaypointIds, latitude : Latitudes, longitude : Longitudes,
     name : Names]

\* the lists update_route is given: the decoder's (every entry named
\* WP<id>), of up to MaxRouteLen entries, repeated ids included
RouteEntries ==
    {[waypoint_id |-> i, latitude |-> lat, longitude |-> lon, name |-> Some(WPName(i))] :
        i \in WaypointIds, lat \in {10}, lon \in Longitudes}

RouteLists ==
    UNION {[1..k -> RouteEntries] : k \in 0..MaxRouteLen}

\* ---- actions ----
UpdateNavigation(cog, sog, vmg) ==
    /\ nav' = update_navigation(nav, cog, sog, vmg)
    /\ navCall' = [op |-> "update_navigation", cog |-> cog]
    /\ UNCHANGED notNav

UpdateWind(true_speed, true_angle, apparent_speed, apparent_angle) ==
    /\ nav' = update_wind(nav, true_speed, true_angle, apparent_speed, apparent_angle)
    /\ navCall' = [op |-> "update_wind", true_angle |-> true_angle]
    /\ UNCHANGED notNav

UpdateWaypoint(a) ==
    /\ nav' = update_waypoint(nav, a)
    /\ navCall' = [op |-> "update_waypoint"]
    /\ UNCHANGED notNav

AddRouteWaypoint(waypoint_id, latitude, longitude, name) ==
    /\ nav' = add_route_waypoint(nav, waypoint_id, latitude, longitude, name)
    /\ navCall' = [op |-> "add_route_waypoint", waypoint_id |-> waypoint_id,
                   latitude |-> latitude, longitude |-> longitude, name |-> name,
                   was_present |-> InList(waypoint_id, nav.waypoint_sequence),
                   was_stored |-> IF waypoint_id \in DOMAIN nav.route_waypoints
                                  THEN Some(nav.route_waypoints[waypoint_id])
                                  ELSE None]
    /\ UNCHANGED notNav

UpdateRoute(route_id, waypoints_list) ==
    /\ nav' = update_route(nav, route_id, waypoints_list)
    /\ navCall' = [op |-> "update_route", route_id |-> route_id,
                   waypoints_list |-> waypoints_list,
                   had |-> nav.waypoint_sequence]
    /\ UNCHANGED notNav

InitNav ==
    /\ NavConstructed
    /\ AveragerConstructed
    /\ ParserConstructed
    /\ ClientIdle

\* course and wind updates, as the app makes them on CourseSpeed and Wind
\* records
NextWind ==
    \/ \E cog \in {Some(a) : a \in Angles} : UpdateNavigation(cog, None, None)
    \/ \E sog \in {Some(v) : v \in Speeds} : UpdateNavigation(None, sog, None)
    \/ \E ta \in {Some(a) : a \in Angles}, ts \in {Some(v) : v \in Speeds} :
           UpdateWind(ts, ta, None, None)
    \/ \E aa \in {Some(a) : a \in Angles}, as \in {Some(v) : v \in Speeds} :
           UpdateWind(None, None, as, aa)

SpecWind == InitNav /\ [][NextWind]_vars

\* waypoint and route updates
NextRoute ==
    \/ \E id \in {0} \cup WaypointIds :
           UpdateWaypoint([NoWaypointArgs EXCEPT !.waypoint_id = Some(id)])
    \/ \E id \in WaypointIds, lat \in Latitudes, lon \in Longitudes, name \in Names :
           AddRouteWaypoint(id, lat, lon, name)
    \/ \E rid \in {Some(r) : r \in RouteIds}, l \in RouteLists :
           UpdateRoute(rid, Some(l))
    \/ \E rid \in {Some(r) : r \in RouteIds} : UpdateRoute(rid, None)

SpecRoute == InitNav /\ [][NextRoute]_vars

\* ---- the course to the next waypoint ----
\* what math.degrees(math.atan2(y, x)) can be
AtanResults == {-180, -90, 0, 45, 180}
DestinationLatitudes == {0, 10}
DestinationLongitudes == {0, 40}

CalculateCourseToNextWaypoint(atan) ==
    /\ nav' = calculate_course_to_next_waypoint(nav, atan)
    /\ navCall' = [op |-> "calculate_course_to_next_waypoint", atan |-> atan]
    /\ UNCHANGED notNav

NextCourse ==
    \/ \E id \in {0} \cup WaypointIds :
           UpdateWaypoint([NoWaypointArgs EXCEPT !.waypoint_id = Some(id)])
    \/ \E lat \in DestinationLatitudes, lon \in DestinationLongitudes :
           UpdateWaypoint([NoWaypointArgs EXCEPT !.dest_lat = Some(lat),
                                                 !.dest_lon = Some(lon)])
    \/ \E id \in WaypointIds, lat \in Latitudes, lon \in Longitudes :
           AddRouteWaypoint(id, lat, lon, None)
    \/ \E rid \in {Some(r) : r \in RouteIds}, l \in RouteLists :
           UpdateRoute(rid, Some(l))
    \/ \E atan \in AtanResults : CalculateCourseToNextWaypoint(atan)

SpecCourse == InitNav /\ [][NextCourse]_vars

\* ---- the route store with object identity, and a caller of its reads ----
\* what a caller writes into a dict it was given
WrittenLatitude == 0

WriteLatitude(h, ref) == [h EXCEPT !.objs[ref].latitude = WrittenLatitude]

\* the store's fields as they read after a step on the heap
Reread(n, h) == [n EXCEPT !.route_waypoints = Deref(h, h.store)]

StoreAddRouteWaypoint(waypoint_id, latitude, longitude, name) ==
    /\ Len(heap.objs) < MaxObjects
    /\ nav' = add_route_waypoint(nav, waypoint_id, latitude, longitude, name)
    /\ heap' = heap_add_route_waypoint(heap, waypoint_id, latitude, longitude, name)
    /\ navCall' = [op |-> "store"]
    /\ UNCHANGED notStore

StoreUpdateRoute(route_id, waypoints_list) ==
    /\ Len(heap.objs) + Len(waypoints_list[1]) <= MaxObjects
    /\ nav' = update_route(nav, route_id, waypoints_list)
    /\ heap' = heap_update_route(heap, waypoints_list)
    /\ navCall' = [op |-> "store"]
    /\ UNCHANGED notStore

StoreUpdateWaypoint(a) ==
    /\ nav' = update_waypoint(nav, a)
    /\ navCall' = [op |-> "store"]
    /\ UNCHANGED heap
    /\ UNCHANGED notStore

GetRouteSummary ==
    /\ heap' = [heap EXCEPT !.summary = Some(get_route_summary(nav, heap))]
    /\ navCall' = [op |-> "read"]
    /\ UNCHANGED nav
    /\ UNCHANGED notStore

GetNextWaypointInRoute ==
    /\ heap' = [heap EXCEPT !.next_wp = next_waypoint_ref(nav, heap)]
    /\ navCall' = [op |-> "read"]
    /\ UNCHANGED nav
    /\ UNCHANGED notStore

\* the caller empties the list it got: summary['Waypoint Sequence'].clear()
MutateSummarySequence ==
    /\ heap.summary # None
    /\ heap' = [heap EXCEPT !.summary[1].sequence = <<>>]
    /\ nav' = Reread(nav, heap')
    /\ navCall' = [op |-> "mutate"]
    /\ UNCHANGED notStore

\* summary['Route Waypoints'][waypoint_id]['latitude'] = ...
MutateSummaryWaypoint(waypoint_id) ==
    /\ heap.summary # None
    /\ waypoint_id \in DOMAIN heap.summary[1].waypoints
    /\ heap' = WriteLatitude(heap, heap.summary[1].waypoints[waypoint_id])
    /\ nav' = Reread(nav, heap')
    /\ navCall' = [op |-> "mutate"]
    /\ UNCHANGED notStore

\* next_wp['latitude'] = ... on the value get_next_waypoint_in_route returned
MutateNextWaypoint ==
    /\ heap.next_wp # None
    /\ heap' = WriteLatitude(heap, heap.next_wp[1])
    /\ nav' = Reread(nav, heap')
    /\ navCall' = [op |-> "mutate"]
    /\ UNCHANGED notStore

NextSnapshot ==
    \/ \E id \in WaypointIds, lat \in Latitudes, lon \in Longitudes :
           StoreAddRouteWaypoint(id, lat, lon, None)
    \/ \E rid \in {Some(r) : r \in RouteIds}, l \in RouteLists :
           StoreUpdateRoute(rid, Some(l))
    \/ \E id \in WaypointIds :
           StoreUpdateWaypoint([NoWaypointArgs EXCEPT !.waypoint_id = Some(id)])
    \/ GetRouteSummary
    \/ GetNextWaypointInRoute
    \/ MutateSummarySequence
    \/ \E id \in WaypointIds : MutateSummaryWaypoint(id)
    \/ MutateNextWaypoint

SpecSnapshot == InitNav /\ [][NextSnapshot]_vars

\* ---- NMEA2000Parser inputs ----
\* the little-endian bytes of a 16-bit and of a signed 32-bit value
LE16(v) == <<v % 256, (v \div 256) % 256>>
LE32(v) == <<v % 256, (v \div 256) % 256, (v \div 65536) % 256, (v \div 16777216) % 256>>

Zeros(n) == [i \in 1..n |-> 0]

\* a waypoint record of the route database: id, latitude, longitude, padding
WaypointRecord(id, lat, lon) == LE16(id) \o LE32(lat) \o LE32(lon) \o Zeros(6)

\* a route database of three waypoints and some bytes of a fourth
DatabasePayload ==
    LE16(1) \o LE16(7) \o <<11, 0, 0, 0>>
    \o WaypointRecord(1, 370000000, -1220000000)
    \o WaypointRecord(258, 371000000, -1221000000)
    \o WaypointRecord(3, -335000000, 1512000000)
    \o <<4, 0, 1, 2, 3, 4, 5, 6, 7, 8>>

\* a waypoint with the name MARK, zero-terminated, and bytes after it
NamedPayload ==
    LE16(5) \o <<16, 39, 200, 0, 2, 9>> \o <<77, 65, 82, 75, 0>>
    \o [i \in 1..53 |-> ((i * 37) % 251) + 1]

Payloads == {DatabasePayload, NamedPayload}

\* a record's 8 header bytes: priority 6, the selector, source 35, and four
\* reserved bytes
Header(pgn) ==
    <<24 + pgn \div 65536, (pgn \div 256) % 256, pgn % 256, 35, 0, 0, 0, 0>>

\* a selector the parser has no entry for
PGN_UNKNOWN == 127250

Records ==
    {Header(pgn) \o SubSeq(pl, 1, n) :
        pgn \in pgn_parsers \cup {PGN_UNKNOWN}, pl \in Payloads, n \in 0..MaxPayload}
    \cup {SubSeq(Header(PGN_WIND), 1, n) : n \in 0..7}

\* ---- NMEA2000Parser actions ----
ParseMessage(raw_data) ==
    /\ raw' = raw_data
    /\ parsed' = parse_message(raw_data)
    /\ UNCHANGED notParser

InitParser ==
    /\ ParserConstructed
    /\ AveragerConstructed
    /\ NavConstructed
    /\ ClientIdle

NextParser == \E raw_data \in Records : ParseMessage(raw_data)

SpecParser == InitParser /\ [][NextParser]_vars

\* ---- update_route on one thread, a route read on another ----
\* "self.current_route_id = route_id", with a waypoints_list given
UpdateRouteBegins(route_id, waypoints_list) ==
    /\ rt.wpc = "idle"
    /\ rt.left > 0
    /\ nav' = [nav EXCEPT !.current_route_id = route_id]
    /\ LET target == RouteOf(update_route(nav, Some(route_id), Some(waypoints_list)))
       IN  rt' = [rt EXCEPT !.wpc = "clear_wps", !.wlist = waypoints_list, !.wi = 1,
                            !.wprev = RouteOf(nav), !.wnew = target,
                            !.left = @ - 1,
                            !.valid = IF rt.rpc # "idle" THEN @ \cup {target} ELSE @]
    /\ UNCHANGED notRoute

\* "self.route_waypoints.clear()"
UpdateRouteClearsWaypoints ==
    /\ rt.wpc = "clear_wps"
    /\ nav' = [nav EXCEPT !.route_waypoints = <<>>]
    /\ rt' = [rt EXCEPT !.wpc = "clear_seq"]
    /\ UNCHANGED notRoute

\* "self.waypoint_sequence.clear()"
UpdateRouteClearsSequence ==
    /\ rt.wpc = "clear_seq"
    /\ nav' = [nav EXCEPT !.waypoint_sequence = <<>>]
    /\ rt' = [rt EXCEPT !.wpc = IF rt.wlist = <<>> THEN "idle" ELSE "store"]
    /\ UNCHANGED notRoute

\* add_route_waypoint: "self.route_waypoints[waypoint_id] = {...}"
UpdateRouteStoresWaypoint ==
    /\ rt.wpc = "store"
    /\ LET wp == rt.wlist[rt.wi]
           nm == IF wp.name = None THEN WPName(wp.waypoint_id) ELSE wp.name[1]
       IN  nav' = [nav EXCEPT !.route_waypoints =
                       DictSet(@, wp.waypoint_id,
                               [latitude |-> wp.latitude, longitude |-> wp.longitude,
                                name |-> nm])]
    /\ rt' = [rt EXCEPT !.wpc = "append"]
    /\ UNCHANGED notRoute

\* add_route_waypoint: "if waypoint_id not in self.waypoint_sequence:
\* append", then the next entry of the list
UpdateRouteAppendsId ==
    /\ rt.wpc = "append"
    /\ LET id == rt.wlist[rt.wi].waypoint_id
       IN  nav' = [nav EXCEPT !.waypoint_sequence =
                       IF ~InList(id, @) THEN Append(@, id) ELSE @]
    /\ rt' = [rt EXCEPT !.wi = @ + 1,
                        !.wpc = IF rt.wi = Len(rt.wlist) THEN "idle" ELSE "store"]
    /\ UNCHANGED notRoute

\* a read begins: the complete routes it may return
ValidAtStart ==
    IF rt.wpc = "idle" THEN {RouteOf(nav)} ELSE {rt.wprev, rt.wnew}

\* a read returns value, or lets an exception out
ReadReturns(kind, raised, value, cur) ==
    rt' = [rt EXCEPT !.rpc = "idle", !.rloc = <<>>, !.valid = {},
                     !.done = [kind |-> kind, raised |-> raised, value |-> value,
                               cur |-> cur, valid |-> rt.valid]]

\* get_route_summary: 'Route ID' and 'Total Waypoints' are evaluated
SummaryReadsTotal ==
    /\ rt.rpc = "idle"
    /\ rt' = [rt EXCEPT !.rpc = "s_seq", !.valid = ValidAtStart, !.done = NoRead,
                        !.rloc = [route_id |-> nav.current_route_id,
                                  total |-> Cardinality(DOMAIN nav.route_waypoints)]]
    /\ UNCHANGED nav
    /\ UNCHANGED notRoute

\* "self.waypoint_sequence.copy()"
SummaryCopiesSequence ==
    /\ rt.rpc = "s_seq"
    /\ rt' = [rt EXCEPT !.rpc = "s_wps",
                        !.rloc = [route_id |-> rt.rloc.route_id, total |-> rt.rloc.total,
                                  sequence |-> nav.waypoint_sequence]]
    /\ UNCHANGED nav
    /\ UNCHANGED notRoute

\* "self.route_waypoints.copy()", and the dict is returned
SummaryCopiesWaypoints ==
    /\ rt.rpc = "s_wps"
    /\ ReadReturns("summary", "",
                   [route_id |-> rt.rloc.route_id, total |-> rt.rloc.total,
                    sequence |-> rt.rloc.sequence, waypoints |-> nav.route_waypoints],
                   0)
    /\ UNCHANGED nav
    /\ UNCHANGED notRoute

\* get_next_waypoint_in_route: "self.waypoint_sequence.index(...)"
NextReadsIndex ==
    /\ rt.rpc = "idle"
    /\ LET cur == nav.current_waypoint_id
           r == list_index(nav.waypoint_sequence, cur)
       IN  IF r.raises # ""
           THEN rt' = [rt EXCEPT !.done = [kind |-> "next", raised |-> "", value |-> None,
                                           cur |-> cur, valid |-> ValidAtStart]]
           ELSE rt' = [rt EXCEPT !.rpc = "n_len", !.valid = ValidAtStart, !.done = NoRead,
                                 !.rloc = [cur |-> cur, index |-> r.index, id |-> 0]]
    /\ UNCHANGED nav
    /\ UNCHANGED notRoute

\* "if current_index + 1 < len(self.waypoint_sequence)"
NextTestsLength ==
    /\ rt.rpc = "n_len"
    /\ IF rt.rloc.index + 1 < Len(nav.waypoint_sequence)
       THEN rt' = [rt EXCEPT !.rpc = "n_elem"]
       ELSE ReadReturns("next", "", None, rt.rloc.cur)
    /\ UNCHANGED nav
    /\ UNCHANGED notRoute

\* "self.waypoint_sequence[current_index + 1]": IndexError is caught
NextReadsId ==
    /\ rt.rpc = "n_elem"
    /\ IF rt.rloc.index + 2 <= Len(nav.waypoint_sequence)
       THEN rt' = [rt EXCEPT !.rpc = "n_in",
                             !.rloc.id = nav.waypoint_sequence[rt.rloc.index + 2]]
       ELSE ReadReturns("next", "", None, rt.rloc.cur)
    /\ UNCHANGED nav
    /\ UNCHANGED notRoute

\* "if next_wp_id in self.route_waypoints"
NextTestsKey ==
    /\ rt.rpc = "n_in"
    /\ IF rt.rloc.id \in DOMAIN nav.route_waypoints
       THEN rt' = [rt EXCEPT !.rpc = "n_get"]
       ELSE ReadReturns("next", "", None, rt.rloc.cur)
    /\ UNCHANGED nav
    /\ UNCHANGED notRoute

\* "return self.route_waypoints[next_wp_id]": KeyError is not caught
NextGetsWaypoint ==
    /\ rt.rpc = "n_get"
    /\ IF rt.rloc.id \in DOMAIN nav.route_waypoints
       THEN ReadReturns("next", "", Some(nav.route_waypoints[rt.rloc.id]), rt.rloc.cur)
       ELSE ReadReturns("next", "KeyError", None, rt.rloc.cur)
    /\ UNCHANGED nav
    /\ UNCHANGED notRoute

InitRouteThreads ==
    /\ nav = NavigationData_init
    /\ navCall = [op |-> "init"]
    /\ heap = Heap_init
    /\ rt = [RouteThreadsIdle EXCEPT !.left = MaxUpdates]
    /\ AveragerConstructed
    /\ ParserConstructed
    /\ ClientIdle

NextRouteThreads ==
    \/ \E rid \in RouteIds, l \in RouteLists : UpdateRouteBegins(rid, l)
    \/ UpdateRouteClearsWaypoints
    \/ UpdateRouteClearsSequence
    \/ UpdateRouteStoresWaypoint
    \/ UpdateRouteAppendsId
    \/ SummaryReadsTotal
    \/ SummaryCopiesSequence
    \/ SummaryCopiesWaypoints
    \/ NextReadsIndex
    \/ NextTestsLength
    \/ NextReadsId
    \/ NextTestsKey
    \/ NextGetsWaypoint
    \/ \E id \in WaypointIds :
           rt.rpc = "idle" /\ rt.wpc = "idle" /\ nav.current_waypoint_id # id
           /\ UpdateWaypoint([NoWaypointArgs EXCEPT !.waypoint_id = Some(id)])

SpecRouteThreads == InitRouteThreads /\ [][NextRouteThreads]_vars

\* ---- NMEA2000App inputs ----
\* 16-bit angle fields, in 0.0001 rad: 30 degrees, the last value below a
\* full turn, and the all-ones value
RawAngles == {5236, 62831, 65535}


\* only a route record has a bearing calculated
AtanFor(raw_data) ==
    IF Len(raw_data) >= 8 /\ pgn_of(raw_data) = PGN_ROUTE_INFO
    THEN AtanResults ELSE {0}

CogSogRecord(cog, sog) ==
    Header(PGN_COG_SOG) \o <<0, 0>> \o LE16(cog) \o LE16(sog) \o <<0, 0>>

WindRecord(speed, angle, reference) ==
    Header(PGN_WIND) \o LE16(speed) \o LE16(angle) \o <<reference, 0>>

NavigationRecord(distance, bearing) ==
    Header(PGN_NAVIGATION) \o LE32(distance) \o LE16(bearing) \o <<0, 0>>

WaypointInfoRecord(id) ==
    Header(PGN_WAYPOINT_INFO) \o LE16(id) \o Zeros(6) \o <<77, 0>>

RouteInfoRecord(wp, bearing, lat, lon) ==
    Header(PGN_ROUTE_INFO) \o LE16(7) \o LE16(wp) \o LE32(1200) \o LE16(bearing)
    \o LE32(lat) \o LE32(lon)

\* a route record whose payload ends after 16 bytes, inside the longitude
ShortRouteInfoRecord ==
    SubSeq(RouteInfoRecord(1, 5236, 370000000, 1220000000), 1, 8 + 16)

RouteDatabaseRecord ==
    Header(PGN_ROUTE_DATABASE) \o LE16(1) \o LE16(7) \o <<0, 0, 0, 0>>
    \o WaypointRecord(1, 370000000, 1220000000)
    \o WaypointRecord(2, 371000000, 1221000000)

AppRecords ==
    {CogSogRecord(cog, 500) : cog \in RawAngles}
    \cup {WindRecord(800, angle, reference) : angle \in RawAngles, reference \in {0, 2}}
    \cup {NavigationRecord(1200, bearing) : bearing \in RawAngles}
    \cup {WaypointInfoRecord(1)}
    \cup {RouteInfoRecord(1, bearing, 370000000, 1220000000) : bearing \in RawAngles}
    \cup {RouteDatabaseRecord}
    \cup {Header(PGN_XTE) \o <<1>> \o LE32(250) \o <<0>>,
          Header(PGN_POSITION) \o LE32(369000000) \o LE32(1219000000),
          Header(PGN_UNKNOWN) \o <<1, 2>>,
          SubSeq(Header(PGN_WIND), 1, 7),
          Header(PGN_WIND) \o <<1, 2, 3>>,
          ShortRouteInfoRecord}

\* ---- NMEA2000App actions ----
\* the message callback: parse the record, update the store and the averager
OnMessageReceived(raw_data, atan) ==
    LET r == on_message_received(nav, [data |-> data, appended |-> appended,
                                       adds |-> adds],
                                 raw_data, now, window, atan)
    IN  /\ budget.ops > 0
        /\ budget' = [budget EXCEPT !.ops = @ - 1]
        /\ raw' = raw_data
        /\ parsed' = parse_message(raw_data)
        /\ nav' = r.nav
        /\ navCall' = [op |-> "on_message_received"]
        /\ data' = r.avg.data
        /\ appended' = r.avg.appended
        /\ adds' = r.avg.adds
        /\ UNCHANGED <<now, window, heap, rt, cli, socks, files, thr, caller, obs>>

\* the app as built, with MaxMessages records to come
InitApp ==
    /\ AveragerConstructed
    /\ NavConstructed
    /\ ParserConstructed
    /\ ClientConstructed
    /\ budget = [ops |-> MaxMessages, bytes |-> 0]

NextApp ==
    \E raw_data \in AppRecords :
        \E atan \in AtanFor(raw_data) : OnMessageReceived(raw_data, atan)

SpecApp == InitApp /\ [][NextApp]_vars

\* ---- NMEA2000TCPClient actions ----
\* the status callback and the message callback, as the observers see them
Notify(text) == obs' = [obs EXCEPT !.statuses = Append(@, text)]

\* -- connect(), on the caller's thread --
\* self.socket = socket.socket(...); settimeout
ConnectCreateSocket ==
    /\ caller.pc = "idle"
    /\ budget.ops > 0
    /\ caller.made < MaxConnects
    /\ LET k == caller.made + 1
       IN  /\ cli' = [cli EXCEPT !.socket = k]
           /\ socks' = [socks EXCEPT ![k].st = "new"]
           /\ caller' = [caller EXCEPT !.pc = "c_connect", !.made = k, !.k = k]
    /\ budget' = [budget EXCEPT !.ops = @ - 1]
    /\ UNCHANGED <<files, thr, obs>>
    /\ UNCHANGED notClient

\* self.socket.connect(...) returns; self.connected = True
ConnectSucceeds ==
    /\ caller.pc = "c_connect"
    /\ socks' = [socks EXCEPT ![caller.k].st = "connected"]
    /\ cli' = [cli EXCEPT !.connected = TRUE]
    /\ caller' = [caller EXCEPT !.pc = "c_log"]
    /\ UNCHANGED <<files, thr, obs, budget>>
    /\ UNCHANGED notClient

\* self.socket.connect(...) raises: the except clause reports, returns False
ConnectFails ==
    /\ caller.pc = "c_connect"
    /\ Notify("Connection failed")
    /\ caller' = [caller EXCEPT !.pc = "idle", !.returned = "connect_false"]
    /\ UNCHANGED <<cli, socks, files, thr, budget>>
    /\ UNCHANGED notClient

\* self.log_file = open(...)
ConnectOpensLog ==
    /\ caller.pc = "c_log"
    /\ files' = [files EXCEPT ![caller.k] = "open"]
    /\ cli' = [cli EXCEPT !.log_file = caller.k]
    /\ caller' = [caller EXCEPT !.pc = "c_start"]
    /\ UNCHANGED <<socks, thr, obs, budget>>
    /\ UNCHANGED notClient

\* open(...) raises: the except clause reports, returns False
ConnectLogFails ==
    /\ caller.pc = "c_log"
    /\ Notify("Connection failed")
    /\ caller' = [caller EXCEPT !.pc = "idle", !.returned = "connect_false"]
    /\ UNCHANGED <<cli, socks, files, thr, budget>>
    /\ UNCHANGED notClient

\* self.receive_thread.start()
ConnectStartsThread ==
    /\ caller.pc = "c_start"
    /\ thr' = [thr EXCEPT ![caller.k].pc = "while"]
    /\ caller' = [caller EXCEPT !.pc = "c_status"]
    /\ UNCHANGED <<cli, socks, files, obs, budget>>
    /\ UNCHANGED notClient

\* status_callback('Connected to ...'); return True
ConnectReports ==
    /\ caller.pc = "c_status"
    /\ Notify("Connected")
    /\ caller' = [caller EXCEPT !.pc = "idle", !.returned = "connect_true"]
    /\ UNCHANGED <<cli, socks, files, thr, budget>>
    /\ UNCHANGED notClient

\* -- disconnect(), on the caller's thread --
\* self.connected = False
DisconnectClearsFlag ==
    /\ caller.pc = "idle"
    /\ budget.ops > 0
    /\ cli' = [cli EXCEPT !.connected = FALSE]
    /\ caller' = [caller EXCEPT !.pc = "d_socket", !.dsock = NoSocket]
    /\ budget' = [budget EXCEPT !.ops = @ - 1]
    /\ UNCHANGED <<socks, files, thr, obs>>
    /\ UNCHANGED notClient

\* if self.socket: self.socket.close(); self.socket = None
DisconnectClosesSocket ==
    /\ caller.pc = "d_socket"
    /\ IF cli.socket # NoSocket
       THEN /\ socks' = [socks EXCEPT ![cli.socket].st = "closed",
                                      ![cli.socket].closes = @ + 1]
            /\ cli' = [cli EXCEPT !.socket = NoSocket]
            /\ caller' = [caller EXCEPT !.pc = "d_log", !.dsock = cli.socket]
       ELSE /\ caller' = [caller EXCEPT !.pc = "d_log"]
            /\ UNCHANGED <<cli, socks>>
    /\ UNCHANGED <<files, thr, obs, budget>>
    /\ UNCHANGED notClient

\* if self.log_file: self.log_file.close(); self.log_file = None
DisconnectClosesLog ==
    /\ caller.pc = "d_log"
    /\ IF cli.log_file # NoFile
       THEN /\ files' = [files EXCEPT ![cli.log_file] = "closed"]
            /\ cli' = [cli EXCEPT !.log_file = NoFile]
       ELSE UNCHANGED <<cli, files>>
    /\ caller' = [caller EXCEPT !.pc = "d_status"]
    /\ UNCHANGED <<socks, thr, obs, budget>>
    /\ UNCHANGED notClient

\* status_callback('Disconnected'); return
DisconnectReports ==
    /\ caller.pc = "d_status"
    /\ obs' = [obs EXCEPT !.statuses = Append(@, "Disconnected"),
                          !.notified = @ \cup ({caller.dsock} \ {NoSocket})]
    /\ caller' = [caller EXCEPT !.pc = "idle", !.returned = "disconnect"]
    /\ UNCHANGED <<cli, socks, files, thr, budget>>
    /\ UNCHANGED notClient

\* -- _receive_data, on receive thread t --
\* "while self.connected:"
LoopTest(t) ==
    /\ thr[t].pc = "while"
    /\ thr' = [thr EXCEPT ![t].pc = IF cli.connected THEN "call" ELSE "exit",
                          ![t].how = IF cli.connected THEN @ ELSE "stopped"]
    /\ UNCHANGED <<cli, socks, files, caller, obs, budget>>
    /\ UNCHANGED notClient

\* the except clause of the loop: report if still connected, then break
ReceiveError(t) ==
    /\ thr' = [thr EXCEPT ![t].pc = "exit", ![t].how = "error", ![t].last = "error"]
    /\ IF cli.connected THEN Notify("Receive error") ELSE UNCHANGED obs

\* "self.socket.recv" is evaluated and the call begins; AttributeError when
\* self.socket is None
RecvCall(t) ==
    /\ thr[t].pc = "call"
    /\ IF cli.socket = NoSocket
       THEN ReceiveError(t)
       ELSE /\ thr' = [thr EXCEPT ![t].pc = "recv", ![t].rsock = cli.socket]
            /\ UNCHANGED obs
    /\ UNCHANGED <<cli, socks, files, caller, budget>>
    /\ UNCHANGED notClient

\* recv returns bytes: buffer += data
RecvData(t, chunk) ==
    /\ thr[t].pc = "recv"
    /\ socks[thr[t].rsock].st = "connected"
    /\ ~socks[thr[t].rsock].eof
    /\ Len(chunk) <= budget.bytes
    /\ thr' = [thr EXCEPT ![t].pc = "split",
                          ![t].buffer = @ \o chunk,
                          ![t].got = @ \o chunk,
                          ![t].reads = @ + 1,
                          ![t].last = "data"]
    /\ budget' = [budget EXCEPT !.bytes = @ - Len(chunk)]
    /\ UNCHANGED <<cli, socks, files, caller, obs>>
    /\ UNCHANGED notClient

\* the recv timeout handled as the other exceptions are: break
RecvTimeoutBreaks(t) ==
    /\ thr[t].pc = "recv"
    /\ socks[thr[t].rsock].st \in {"connected", "closed"}
    /\ ~socks[thr[t].rsock].eof
    /\ thr' = [thr EXCEPT ![t].pc = "exit", ![t].how = "error", ![t].last = "timeout"]
    /\ UNCHANGED <<cli, socks, files, caller, obs, budget>>
    /\ UNCHANGED notClient

\* recv raises socket.timeout: continue.  A socket closed under a blocked
\* recv can time out as well.
RecvTimeout(t) ==
    /\ thr[t].pc = "recv"
    /\ socks[thr[t].rsock].st \in {"connected", "closed"}
    /\ ~socks[thr[t].rsock].eof
    /\ thr' = [thr EXCEPT ![t].pc = "while", ![t].last = "timeout"]
    /\ UNCHANGED <<cli, socks, files, caller, obs, budget>>
    /\ UNCHANGED notClient

\* recv returns b'' (the peer closed the connection): break
RecvEOF(t) ==
    /\ thr[t].pc = "recv"
    /\ socks[thr[t].rsock].st = "connected"
    /\ socks' = [socks EXCEPT ![thr[t].rsock].eof = TRUE]
    /\ thr' = [thr EXCEPT ![t].pc = "exit", ![t].how = "eof", ![t].last = "eof"]
    /\ UNCHANGED <<cli, files, caller, obs, budget>>
    /\ UNCHANGED notClient

\* recv raises another exception: the connection was reset, or the socket
\* is closed or not connected
RecvFails(t) ==
    /\ thr[t].pc = "recv"
    /\ ReceiveError(t)
    /\ UNCHANGED <<cli, socks, files, caller, budget>>
    /\ UNCHANGED notClient

\* "while b'\n' in buffer: line, buffer = buffer.split(b'\n', 1); if line:"
SplitLine(t) ==
    /\ thr[t].pc = "split"
    /\ IF HasNewline(thr[t].buffer)
       THEN LET parts == split_first(thr[t].buffer)
            IN  thr' = [thr EXCEPT ![t].line = parts[1],
                                   ![t].buffer = parts[2],
                                   ![t].pc = IF line_accepted(parts[1])
                                             THEN "log" ELSE "split"]
       ELSE thr' = [thr EXCEPT ![t].pc = "while"]
    /\ UNCHANGED <<cli, socks, files, caller, obs, budget>>
    /\ UNCHANGED notClient

\* _process_message: write the line to the log file if there is an open one
\* (a failed write is swallowed)
ProcessLog(t) ==
    /\ thr[t].pc = "log"
    /\ IF cli.log_file # NoFile /\ files[cli.log_file] = "open"
       THEN /\ obs' = [obs EXCEPT !.log = Append(@, <<cli.log_file, thr[t].line>>)]
            /\ thr' = [thr EXCEPT ![t].pc = "count",
                                  ![t].logged = Append(@, thr[t].line)]
       ELSE /\ UNCHANGED obs
            /\ thr' = [thr EXCEPT ![t].pc = "count"]
    /\ UNCHANGED <<cli, socks, files, caller, budget>>
    /\ UNCHANGED notClient

\* self.message_count += 1
ProcessCount(t) ==
    /\ thr[t].pc = "count"
    /\ cli' = [cli EXCEPT !.message_count = @ + 1]
    /\ thr' = [thr EXCEPT ![t].pc = "callback"]
    /\ UNCHANGED <<socks, files, caller, obs, budget>>
    /\ UNCHANGED notClient

\* self.message_callback(raw_data)
ProcessCallback(t) ==
    /\ thr[t].pc = "callback"
    /\ obs' = [obs EXCEPT !.delivered = Append(@, thr[t].line)]
    /\ thr' = [thr EXCEPT ![t].pc = "split", ![t].handed = Append(@, thr[t].line)]
    /\ UNCHANGED <<cli, socks, files, caller, budget>>
    /\ UNCHANGED notClient

\* after the loop: self.connected = False; status_callback('Connection lost')
LoopExit(t) ==
    /\ thr[t].pc = "exit"
    /\ cli' = [cli EXCEPT !.connected = FALSE]
    /\ obs' = [obs EXCEPT !.statuses = Append(@, "Connection lost"),
                          !.notified = @ \cup {t}]
    /\ thr' = [thr EXCEPT ![t].pc = "done"]
    /\ UNCHANGED <<socks, files, caller, budget>>
    /\ UNCHANGED notClient

NextClient ==
    \/ ConnectCreateSocket
    \/ ConnectSucceeds
    \/ ConnectFails
    \/ ConnectOpensLog
    \/ ConnectLogFails
    \/ ConnectStartsThread
    \/ ConnectReports
    \/ DisconnectClearsFlag
    \/ DisconnectClosesSocket
    \/ DisconnectClosesLog
    \/ DisconnectReports
    \/ \E t \in ConnectCalls : LoopTest(t)
    \/ \E t \in ConnectCalls : RecvCall(t)
    \/ \E t \in ConnectCalls, chunk \in Chunks : RecvData(t, chunk)
    \/ \E t \in ConnectCalls : RecvTimeout(t)
    \/ \E t \in ConnectCalls : RecvEOF(t)
    \/ \E t \in ConnectCalls : RecvFails(t)
    \/ \E t \in ConnectCalls : SplitLine(t)
    \/ \E t \in ConnectCalls : ProcessLog(t)
    \/ \E t \in ConnectCalls : ProcessCount(t)
    \/ \E t \in ConnectCalls : ProcessCallback(t)
    \/ \E t \in ConnectCalls : LoopExit(t)

\* the client through connects and disconnects, with a short stream
InitClient ==
    /\ ClientConstructed
    /\ budget = [ops |-> MaxOps, bytes |-> MaxBytes]
    /\ AveragerConstructed
    /\ NavConstructed
    /\ ParserConstructed

SpecClient == InitClient /\ [][NextClient]_vars

\* one connection and a longer stream
InitFraming ==
    /\ ClientConstructed
    /\ budget = [ops |-> 1, bytes |-> MaxStream]
    /\ AveragerConstructed
    /\ NavConstructed
    /\ ParserConstructed

SpecFraming == InitFraming /\ [][NextClient]_vars

\* the receive thread, once started, runs: the statements after its loop
\* are executed
SpecLoop ==
    /\ InitFraming
    /\ [][NextClient]_vars
    /\ \A t \in ConnectCalls : WF_vars(LoopExit(t))

\* ------------------------------------------------------------------------
\* Properties of the averager
\* ------------------------------------------------------------------------
\* the <<value, arrival>> pairs of the samples a channel still holds: deques
\* grow at the back and shrink at the front, so they are the newest
\* Len(data[c]) entries of the history
Retained(c) ==
    SubSeq(appended[c], Len(appended[c]) - Len(data[c]) + 1, Len(appended[c]))

RECURSIVE ValuesOf(_)
ValuesOf(ps) == IF ps = <<>> THEN <<>> ELSE <<Head(ps)[1]>> \o ValuesOf(Tail(ps))

InPeriod(ps, minutes) == SelectSeq(ps, LAMBDA p : p[2] >= now - minutes)

\* equality of two fractions <<numerator, denominator>>
RatEq(a, b) == a[1] * b[2] = b[1] * a[2]

MeanOf(ps) == IF ps = <<>> THEN <<0, 1>> ELSE <<SumSeq(ValuesOf(ps)), Len(ps)>>

\* the history agrees with the deques: a channel holds the values of its
\* newest appended samples
HistoryMatchesData ==
    \A c \in Channels :
        /\ Len(data[c]) <= Len(appended[c])
        /\ ValuesOf(Retained(c)) = data[c]

\* C1: at any time, for every channel, get_average is the mean of exactly
\* the values appended to the channel whose timestamp is >= now - window,
\* and 0 when there is none
C1_AverageIsWindowMean ==
    \A c \in Channels :
        RatEq(get_average(data, c), MeanOf(InPeriod(appended[c], window)))

\* C2: when at least two wind-direction samples the averager holds are
\* inside the requested period, get_wind_shift is the newest of them minus
\* the oldest of them, wrap-corrected
C2_WindShiftNewestMinusOldest ==
    \A m \in Periods :
        LET inp == ValuesOf(InPeriod(Retained(AWD), m))
        IN  Len(inp) >= 2 =>
                get_wind_shift(data, now, m) = normalize_shift(inp[Len(inp)] - inp[1])

C4_AbsWindTracksCourseAndWind ==
    nav.absolute_wind_direction =
        (nav.true_wind_angle + nav.current_cog) % FullTurn

\* C5: add_route_waypoint with an id already in the route leaves
\* waypoint_sequence as it was, with that id in it once, and stores the new
\* latitude, longitude and name for the id
C5_ReAddKeepsSequence ==
    [][(navCall'.op = "add_route_waypoint" /\ navCall'.was_present) =>
           LET id == navCall'.waypoint_id
           IN  /\ nav'.waypoint_sequence = nav.waypoint_sequence
               /\ Cardinality({i \in 1..Len(nav'.waypoint_sequence) :
                                   nav'.waypoint_sequence[i] = id}) = 1
               /\ nav'.route_waypoints[id] =
                      [latitude |-> navCall'.latitude,
                       longitude |-> navCall'.longitude,
                       name |-> IF navCall'.name = None THEN WPName(id)
                                ELSE navCall'.name[1]]]_vars

\* an id that is first of a longer route has just been added again with
\* values other than the stored ones
C5_Witness ==
    /\ navCall.op = "add_route_waypoint"
    /\ navCall.was_present
    /\ navCall.was_stored # None
    /\ navCall.was_stored[1] # nav.route_waypoints[navCall.waypoint_id]
    /\ Len(nav.waypoint_sequence) >= 2
    /\ nav.waypoint_sequence[1] = navCall.waypoint_id

\* C6: in every state of the store get_next_waypoint_in_route raises
\* nothing; it returns the stored waypoint that follows current_waypoint_id
\* in waypoint_sequence when the id is there and not last, and none otherwise
C6_NextWaypointOrNone ==
    LET r == get_next_waypoint_in_route(nav)
        seq == nav.waypoint_sequence
        cur == nav.current_waypoint_id
    IN  /\ r.raised = ""
        /\ IF \E i \in 1..(Len(seq) - 1) : seq[i] = cur
           THEN \E i \in 1..(Len(seq) - 1) :
                    /\ seq[i] = cur
                    /\ r.value = Some(nav.route_waypoints[seq[i + 1]])
           ELSE r.value = None

\* the route is not empty and the current waypoint id is not in it
C6_Witness ==
    /\ nav.waypoint_sequence # <<>>
    /\ ~InList(nav.current_waypoint_id, nav.waypoint_sequence)
    /\ nav.current_waypoint_id # 0
    /\ get_next_waypoint_in_route(nav).value = None

\* ------------------------------------------------------------------------
\* Properties of the parser
\* ------------------------------------------------------------------------
\* the payload of a record: what follows its 8 header bytes
PayloadOf(raw_data) == Slice(raw_data, 8, Len(raw_data))

\* the shortest payload each selector's parser accepts
MinPayload(pgn) ==
    CASE pgn \in {PGN_WIND, PGN_XTE} -> 6
      [] pgn = PGN_ROUTE_INFO -> 16
      [] OTHER -> 8

\* a record of a selector the parser handles, one byte short of its minimum
OneByteShort(raw_data) ==
    /\ Len(raw_data) >= 8
    /\ pgn_of(raw_data) \in pgn_parsers
    /\ Len(PayloadOf(raw_data)) = MinPayload(pgn_of(raw_data)) - 1

\* C7: a RouteWaypointDatabase payload of length L >= 8 decodes to exactly
\* (L - 8) \div 16 waypoints, the k-th from the 16-byte record at offset
\* 8 + 16 (k - 1); a trailing partial record is discarded without error
C7_WholeRecordsDecoded ==
    (Len(raw) >= 16 /\ pgn_of(raw) = PGN_ROUTE_DATABASE) =>
        LET pl == PayloadOf(raw)
        IN  /\ parsed.kind = "route_waypoint_database"
            /\ Len(parsed.waypoints) = (Len(pl) - 8) \div 16
            /\ \A k \in 1..Len(parsed.waypoints) :
                   LET rec == SubSeq(pl, 8 + 16 * (k - 1) + 1, 8 + 16 * k)
                   IN  /\ parsed.waypoints[k].waypoint_id = rec[1] + 256 * rec[2]
                       /\ parsed.waypoints[k].latitude = S32LE(SubSeq(rec, 3, 6))
                       /\ parsed.waypoints[k].longitude = S32LE(SubSeq(rec, 7, 10))

\* two full records and 5 trailing bytes: waypoints 1 and 258 come out
C7_Witness ==
    /\ Len(raw) = 8 + 8 + 2 * 16 + 5
    /\ pgn_of(raw) = PGN_ROUTE_DATABASE
    /\ parsed.kind = "route_waypoint_database"
    /\ Len(parsed.waypoints) = 2
    /\ parsed.waypoints[1].waypoint_id = 1
    /\ parsed.waypoints[1].latitude = 370000000
    /\ parsed.waypoints[1].longitude = -1220000000
    /\ parsed.waypoints[2].waypoint_id = 258

RECURSIVE CompleteRecords(_)
CompleteRecords(stream) ==
    IF ~HasNewline(stream) THEN <<>>
    ELSE <<SubSeq(stream, 1, FirstNewline(stream) - 1)>>
         \o CompleteRecords(SubSeq(stream, FirstNewline(stream) + 1, Len(stream)))

IsPrefix(a, b) == Len(a) <= Len(b) /\ SubSeq(b, 1, Len(a)) = a

\* thread t is not in the middle of taking the records out of its buffer
BetweenReads(t) == thr[t].pc \in {"while", "call", "recv", "exit", "done"}

OnlyThread(t) == \A u \in ConnectCalls \ {t} : thr[u].pc = "none"

\* C9 as claimed: what a receive loop has handed to the message callback
\* is, in order and each once, the complete newline-terminated records of
\* the bytes its reads returned, however the stream was split into reads
C9_DeliversCompleteRecords ==
    \A t \in ConnectCalls :
        /\ IsPrefix(thr[t].handed, CompleteRecords(thr[t].got))
        /\ BetweenReads(t) => thr[t].handed = CompleteRecords(thr[t].got)

\* C9 as the code has it: the same of the non-empty complete records (an
\* empty record, two newlines in a row, is skipped); with one receive loop
\* the message callback has received exactly those
C9_DeliversNonEmptyRecords ==
    \A t \in ConnectCalls :
        LET records == SelectSeq(CompleteRecords(thr[t].got), LAMBDA r : r # <<>>)
        IN  /\ IsPrefix(thr[t].handed, records)
            /\ BetweenReads(t) => thr[t].handed = records
            /\ OnlyThread(t) => obs.delivered = thr[t].handed

\* a record that arrived one byte per read has been delivered whole
C9_Witness ==
    \E t \in ConnectCalls :
        /\ thr[t].reads = 3
        /\ thr[t].got = <<65, 66, NEWLINE>>
        /\ thr[t].handed = <<<<65, 66>>>>
        /\ obs.delivered = <<<<65, 66>>>>

\* C10: once the receive loop of a session has ended, by disconnect() or by
\* a read error or end of stream, and no call is in progress, the session's
\* socket has been closed exactly once and the status observer has been told
\* of the disconnection; no socket is ever closed twice
C10_SocketReleasedOnceAndNotified ==
    \A s \in ConnectCalls :
        /\ socks[s].closes <= 1
        /\ (caller.pc = "idle" /\ thr[s].pc = "done") =>
               (socks[s].closes = 1 /\ s \in obs.notified)

\* C11: once disconnect() has returned, no record is counted, logged or
\* handed to the message callback any more: the receive loop has terminated.
DisconnectReturned == caller.pc = "idle" /\ caller.returned = "disconnect"

C11_NothingAfterDisconnectReturns ==
    [][DisconnectReturned =>
           /\ cli'.message_count = cli.message_count
           /\ obs'.log = obs.log
           /\ obs'.delivered = obs.delivered]_vars

\* C12: every record handed to the message callback was, before the
\* hand-off, written as a line of the audit log and counted once, under
\* every interleaving with disconnect().
RECURSIVE SumHanded(_)
SumHanded(ts) ==
    IF ts = {} THEN 0
    ELSE LET t == CHOOSE x \in ts : TRUE
         IN  Len(thr[t].handed) + SumHanded(ts \ {t})

C12_LoggedAndCountedBeforeHandOff ==
    /\ \A t \in ConnectCalls : thr[t].handed = thr[t].logged
                                  \/ thr[t].handed \o <<thr[t].line>> = thr[t].logged
    /\ SumHanded(ConnectCalls) <= cli.message_count

\* C15: at any time at most one connection is open and at most one receive
\* loop is running, whatever connect() and disconnect() calls were made.
\* the connected sockets the client still refers to: self.socket, and the
\* socket a receive loop is blocked on in recv
OwnedConnections ==
    {k \in ConnectCalls :
        /\ socks[k].st = "connected"
        /\ \/ cli.socket = k
           \/ \E t \in ConnectCalls : thr[t].pc = "recv" /\ thr[t].rsock = k}

RunningLoops == {t \in ConnectCalls : thr[t].pc \notin {"none", "done"}}

C15_OneConnectionOneLoop ==
    /\ Cardinality(OwnedConnections) <= 1
    /\ Cardinality(RunningLoops) <= 1

\* ------------------------------------------------------------------------
\* Properties of the route store
\* ------------------------------------------------------------------------
\* C13: after any sequence of add_route_waypoint and update_route calls
\* waypoint_sequence holds no id twice, and the ids in it are exactly the
\* keys of route_waypoints.
C13_SequenceMatchesStoredWaypoints ==
    LET seq == nav.waypoint_sequence
    IN  /\ \A i, j \in 1..Len(seq) : seq[i] = seq[j] => i = j
        /\ {seq[i] : i \in 1..Len(seq)} = DOMAIN nav.route_waypoints

\* update_route has replaced a route by one of two waypoints, the higher id
\* first
C13_Witness ==
    /\ navCall.op = "update_route"
    /\ Len(nav.waypoint_sequence) = 2
    /\ nav.waypoint_sequence[1] > nav.waypoint_sequence[2]
    /\ DOMAIN nav.route_waypoints = {nav.waypoint_sequence[1], nav.waypoint_sequence[2]}

\* ------------------------------------------------------------------------
\* Properties of the averager's window
\* ------------------------------------------------------------------------
SuffixOf(a, b) == \E k \in 0..Len(b) : a = SubSeq(b, k + 1, Len(b))

\* what a step may do to a channel: drop samples at its front, after at
\* most one sample was appended at its back
FrontRemovalOnly(before, after) ==
    \/ SuffixOf(after, before)
    \/ after # <<>> /\ SuffixOf(after, Append(before, after[Len(after)]))

\* the samples every channel retains after the step arrived at
\* now - window or later
RetainedInsideWindowAfter ==
    \A c \in Channels :
        /\ Len(data'[c]) <= Len(appended'[c])
        /\ \A i \in 1..Len(data'[c]) :
               appended'[c][Len(appended'[c]) - Len(data'[c]) + i][2]
                   >= now' - window'

ReturnedValues(h) ==
    [summary |-> IF h.summary = None THEN None
                 ELSE Some([h.summary[1] EXCEPT !.waypoints = Deref(h, @)]),
     next_wp |-> IF h.next_wp = None THEN None ELSE Some(h.objs[h.next_wp[1]])]

\* the heap and the store's fields agree
StoreMatchesHeap == nav.route_waypoints = Deref(heap, heap.store)

\* C16: the values get_route_summary and get_next_waypoint_in_route
\* returned are snapshots: a later add_route_waypoint or update_route does
\* not change them, and changing them does not change the store.
C16_RouteReadsAreSnapshots ==
    [][/\ navCall'.op = "store" => ReturnedValues(heap') = ReturnedValues(heap)
       /\ navCall'.op = "mutate" =>
              /\ nav'.route_waypoints = nav.route_waypoints
              /\ nav'.waypoint_sequence = nav.waypoint_sequence]_vars

\* C16, first half: store updates leave returned values as they were
C16_StoreUpdatesKeepReturnedValues ==
    [][navCall'.op = "store" => ReturnedValues(heap') = ReturnedValues(heap)]_vars

\* ------------------------------------------------------------------------
\* Properties of the store fed by the decoder
\* ------------------------------------------------------------------------
InCompassRange(angle) == 0 <= angle /\ angle < FullTurn

\* C17: whatever records were decoded into the store, the current course,
\* the true and apparent wind angles, the absolute wind direction, the
\* bearing to the waypoint and the course to the next waypoint are in
\* [0, 360).
C17_DirectionsInCompassRange ==
    /\ InCompassRange(nav.current_cog)
    /\ InCompassRange(nav.true_wind_angle)
    /\ InCompassRange(nav.apparent_wind_angle)
    /\ InCompassRange(nav.absolute_wind_direction)
    /\ InCompassRange(nav.bearing_to_waypoint)
    /\ InCompassRange(nav.course_to_next)

\* C17, the two computed directions alone
C17_ComputedDirectionsInCompassRange ==
    /\ InCompassRange(nav.absolute_wind_direction)
    /\ InCompassRange(nav.course_to_next)

\* ------------------------------------------------------------------------
\* Properties of the parser: selectors without a parser
\* ------------------------------------------------------------------------
\* bits 8-24 of the header read as a big-endian 32-bit number
SelectorOf(raw_data) ==
    ((raw_data[1] * 16777216 + raw_data[2] * 65536 + raw_data[3] * 256 + raw_data[4])
        \div 256) % 131072

\* the bytes a string of hexadecimal digits stands for
HexValue(c) == IF c >= 97 THEN c - 87 ELSE c - 48

Unhex(h) ==
    [i \in 1..(Len(h) \div 2) |-> 16 * HexValue(h[2 * i - 1]) + HexValue(h[2 * i])]

UnknownSelector(raw_data) ==
    Len(raw_data) >= 8 /\ SelectorOf(raw_data) \notin pgn_parsers

\* C18 as stated: a record of 8 bytes or more whose selector has no parser
\* decodes to a non-error result with that selector and the hex of the
\* payload.
C18_UnrecognizedCarriesPayloadHex ==
    UnknownSelector(raw) =>
        /\ parsed.kind = "unrecognized"
        /\ parsed.pgn = SelectorOf(raw)
        /\ Len(parsed.raw) = 2 * Len(PayloadOf(raw))
        /\ Unhex(parsed.raw) = PayloadOf(raw)

\* C18: a record of 8 bytes or more whose selector has no parser decodes to
\* a non-error result with that selector and the hex of the whole record,
\* the 8 header bytes included.
C18_UnrecognizedCarriesRecordHex ==
    UnknownSelector(raw) =>
        /\ parsed.kind = "unrecognized"
        /\ parsed.pgn = SelectorOf(raw)
        /\ Len(parsed.raw) = 2 * Len(raw)
        /\ Unhex(parsed.raw) = raw

\* a record with a payload and a selector that has no parser was decoded
C18_Witness ==
    /\ UnknownSelector(raw)
    /\ Len(raw) > 8
    /\ parsed.kind = "unrecognized"
    /\ parsed.pgn = PGN_UNKNOWN

\* ------------------------------------------------------------------------
\* Properties of the wind shift
\* ------------------------------------------------------------------------
\* the wind values get_wind_shift collects for a period
SelectedWindValues(minutes) ==
    wind_values_from(data["timestamps"], data[AWD], now - minutes, 1)

\* C19: the oldest and newest values get_wind_shift works with are the
\* first and the last wind-direction sample whose own arrival is inside the
\* period, however add_data calls on other channels were interleaved.
C19_SelectsByOwnTimestamps ==
    \A m \in Periods :
        LET inp == ValuesOf(InPeriod(Retained(AWD), m))
            sel == SelectedWindValues(m)
        IN  Len(inp) >= 2 =>
                /\ Len(sel) >= 2
                /\ sel[1] = inp[1]
                /\ sel[Len(sel)] = inp[Len(inp)]

\* C20 as stated: with wind-direction samples in [0, 360), get_wind_shift
\* returns a value in (-180, 180].
C20_ShiftInHalfOpenRange ==
    \A m \in Periods :
        /\ -HalfTurn < get_wind_shift(data, now, m)
        /\ get_wind_shift(data, now, m) <= HalfTurn

\* C20: with wind-direction samples in [0, 360), get_wind_shift returns a
\* value in [-180, 180]; -180 is returned as it is.
C20_ShiftInClosedRange ==
    \A m \in Periods :
        /\ -HalfTurn <= get_wind_shift(data, now, m)
        /\ get_wind_shift(data, now, m) <= HalfTurn

\* get_wind_shift worked with two samples, the newest half a turn before
\* the oldest, and returned -180
C20_Witness ==
    /\ \A i \in 1..Len(data[AWD]) : InCompassRange(data[AWD][i])
    /\ \E m \in Periods :
           /\ Len(SelectedWindValues(m)) >= 2
           /\ get_wind_shift(data, now, m) = -HalfTurn

\* ------------------------------------------------------------------------
\* Properties of the averager's trimming
\* ------------------------------------------------------------------------
\* the <<value, arrival>> pairs an add_data step removed from channel c:
\* the channel's samples before the step, the appended one included, that
\* it no longer holds after it
RemovedByAdd(c) ==
    LET h == appended'[c]
        before == Len(data[c]) + (Len(appended'[c]) - Len(appended[c]))
        after == Len(data'[c])
    IN  {h[i] : i \in (Len(h) - before + 1)..(Len(h) - after)}

\* C21: add_data removes from no channel a sample whose own arrival is
\* still inside the window, also when one channel is fed far less often
\* than another.
C21_NoInWindowSampleRemoved ==
    [][adds' # adds =>
           \A c \in Channels :
               \A p \in RemovedByAdd(c) : p[2] < now' - window']_vars

\* ------------------------------------------------------------------------
\* Properties of update_route
\* ------------------------------------------------------------------------
\* the elements of a sequence in order of first occurrence
RECURSIVE FirstOccurrences(_, _)
FirstOccurrences(s, seen) ==
    IF s = <<>> THEN <<>>
    ELSE IF Head(s) \in seen THEN FirstOccurrences(Tail(s), seen)
    ELSE <<Head(s)>> \o FirstOccurrences(Tail(s), seen \cup {Head(s)})

IdsOf(waypoints_list) ==
    [i \in 1..Len(waypoints_list) |-> waypoints_list[i].waypoint_id]

\* C22: update_route with a list sets current_route_id to route_id, makes
\* waypoint_sequence the ids of the list in order of first occurrence and
\* route_waypoints a map of exactly those ids to values from the list, with
\* nothing of the previous route left; with no list the waypoints and their
\* order stay as they were.
C22_RouteReplacedWholesale ==
    [][navCall'.op = "update_route" =>
           /\ nav'.current_route_id = navCall'.route_id[1]
           /\ IF navCall'.waypoints_list # None
              THEN LET l == navCall'.waypoints_list[1]
                   IN  /\ nav'.waypoint_sequence = FirstOccurrences(IdsOf(l), {})
                       /\ DOMAIN nav'.route_waypoints = {l[i].waypoint_id : i \in 1..Len(l)}
                       /\ \A id \in DOMAIN nav'.route_waypoints :
                              \E i \in 1..Len(l) :
                                  /\ l[i].waypoint_id = id
                                  /\ nav'.route_waypoints[id].latitude = l[i].latitude
                                  /\ nav'.route_waypoints[id].longitude = l[i].longitude
              ELSE /\ nav'.waypoint_sequence = nav.waypoint_sequence
                   /\ nav'.route_waypoints = nav.route_waypoints]_vars

\* update_route was given a list that names one id twice, and the route it
\* replaced began with another id
C22_Witness ==
    /\ navCall.op = "update_route"
    /\ navCall.waypoints_list # None
    /\ Len(navCall.waypoints_list[1]) = 2
    /\ navCall.waypoints_list[1][1].waypoint_id = navCall.waypoints_list[1][2].waypoint_id
    /\ navCall.had # <<>>
    /\ navCall.had[1] # navCall.waypoints_list[1][1].waypoint_id
    /\ Len(nav.waypoint_sequence) = 1

\* update_route was called without a list on a route of two waypoints
C22_WitnessNoList ==
    /\ navCall.op = "update_route"
    /\ navCall.waypoints_list = None
    /\ Len(nav.waypoint_sequence) = 2

\* ------------------------------------------------------------------------
\* Properties of route reads concurrent with update_route
\* ------------------------------------------------------------------------
\* what get_next_waypoint_in_route returns on a complete route
NextIn(route, cur) ==
    get_next_waypoint_in_route(
        [nav EXCEPT !.waypoint_sequence = route.sequence,
                    !.route_waypoints = route.waypoints,
                    !.current_waypoint_id = cur]).value

\* update_route, statement by statement, ends with the route that
\* update_route as a whole gives
WriterInstallsTarget ==
    (rt.wpc = "idle" /\ rt.wnew # <<>>) => RouteOf(nav) = rt.wnew

\* C23: a route read that runs while update_route runs on another thread
\* returns what it would return on the complete previous route or on the
\* complete new route, and raises nothing.
C23_ReadsSeeWholeRoute ==
    /\ rt.done.kind = "summary" =>
           \E r \in rt.done.valid :
               /\ rt.done.value.sequence = r.sequence
               /\ rt.done.value.waypoints = r.waypoints
               /\ rt.done.value.total = Cardinality(DOMAIN r.waypoints)
    /\ rt.done.kind = "next" =>
           /\ rt.done.raised = ""
           /\ \E r \in rt.done.valid : rt.done.value = NextIn(r, rt.done.cur)

\* ------------------------------------------------------------------------
\* Properties of calculate_course_to_next_waypoint
\* ------------------------------------------------------------------------
DestinationSet(n) == n.destination_latitude # 0 /\ n.destination_longitude # 0

NextResolves(n) == get_next_waypoint_in_route(n).value # None

CourseFields == {"course_to_next", "next_waypoint", "next_waypoint_id"}

\* C24: a call of calculate_course_to_next_waypoint made without a non-zero
\* destination position, or when get_next_waypoint_in_route gives no
\* waypoint, leaves every field of the store unchanged; a call that writes
\* course_to_next or next_waypoint is made with both, and no call changes a
\* field other than course_to_next, next_waypoint and next_waypoint_id.
C24_CourseWrittenOnlyWhenResolved ==
    [][navCall'.op = "calculate_course_to_next_waypoint" =>
           /\ ~(DestinationSet(nav) /\ NextResolves(nav)) => nav' = nav
           /\ \A f \in DOMAIN nav \ CourseFields : nav'[f] = nav[f]]_vars

\* a call has written the course, another has left the store alone for want
\* of a destination
C24_Witness ==
    /\ navCall.op = "calculate_course_to_next_waypoint"
    /\ nav.course_to_next = 45
    /\ nav.next_waypoint # NotAvailable
    /\ nav.destination_latitude = 0
    /\ NextResolves(nav)

\* ------------------------------------------------------------------------
\* Properties of the receive loop's exits
\* ------------------------------------------------------------------------
\* a recv call of thread t ends in this step
RecvEnds(t) == thr[t].pc = "recv" /\ thr'[t].pc # "recv"

TimeoutKeepsLooping ==
    [][\A t \in ConnectCalls :
           (RecvEnds(t) /\ thr'[t].last = "timeout") =>
               /\ thr'[t].pc = "while"
               /\ thr'[t].buffer = thr[t].buffer
               /\ cli'.connected = cli.connected
               /\ obs' = obs]_vars

ErrorOrEOFBreaks ==
    [][\A t \in ConnectCalls :
           (RecvEnds(t) /\ thr'[t].last \in {"eof", "error"}) =>
               thr'[t].pc = "exit"]_vars

\* the loop of the latest session has ended on a read error or on EOF and
\* the statements after it are done
LoopTerminated(t) ==
    /\ thr[t].pc = "done"
    /\ thr[t].how \in {"eof", "error"}
    /\ caller.made = t

\* C25: a recv that times out leaves the loop running, the connected flag
\* and the buffered bytes as they were; a recv that fails otherwise or
\* returns no bytes ends the loop, the statements after the loop are then
\* executed, and after them connected is false and a status notification
\* has been sent.
C25_TimeoutContinuesErrorTerminates ==
    /\ TimeoutKeepsLooping
    /\ ErrorOrEOFBreaks
    /\ \A t \in ConnectCalls :
           /\ (thr[t].pc = "exit") ~> (thr[t].pc = "done")
           /\ [](LoopTerminated(t) =>
                     /\ ~cli.connected
                     /\ t \in obs.notified
                     /\ \E i \in 1..Len(obs.statuses) :
                            obs.statuses[i] = "Connection lost")

\* a recv has timed out with bytes in the buffer and the loop goes on
C25_Witness ==
    /\ thr[1].last = "timeout"
    /\ thr[1].pc = "while"
    /\ thr[1].buffer # <<>>
    /\ cli.connected

\* a loop that received bytes has ended on EOF
C25_WitnessTerminated ==
    /\ thr[1].last = "eof"
    /\ thr[1].buffer # <<>>
    /\ LoopTerminated(1)

\* ------------------------------------------------------------------------
\* Properties of a failed connect()
\* ------------------------------------------------------------------------
ConnectReturnedFalse == caller.pc = "idle" /\ caller.returned = "connect_false"

\* C26: when connect() has returned False, is_connected() gives False, no
\* receive loop is running and 'Connection failed' has been reported.
C26_FailedConnectStartsNothing ==
    ConnectReturnedFalse =>
        /\ ~cli.connected
        /\ RunningLoops = {}
        /\ \E i \in 1..Len(obs.statuses) : obs.statuses[i] = "Connection failed"

\* ------------------------------------------------------------------------
\* Properties of add_data with a name that is no channel
\* ------------------------------------------------------------------------
\* C27: an add_data call whose name is not one of the eight channels
\* appends nothing, trims nothing and leaves every deque of the averager,
\* and so every average and the count, as it was.
C27_OtherNameIsNoOp ==
    [][(adds' # adds /\ appended' = appended) =>
           /\ data' = data
           /\ get_data_count(data') = get_data_count(data)]_vars

\* ------------------------------------------------------------------------
\* Properties of on_message_received on records that decode to no event
\* ------------------------------------------------------------------------
\* parse_message gave None (a record shorter than the header, or a payload
\* too short for its decoder), an error result or an unrecognized one
DroppedKinds == {"None", "error", "unrecognized"}

MessageHandled == navCall'.op = "on_message_received" /\ budget'.ops < budget.ops

\* {'error': str(e)}: what parse_message returns when a decoder raises, which
\* no record of bytes makes the decoders do
ErrorResult == [kind |-> "error", error |-> "struct.error"]

AveragerNow == [data |-> data, appended |-> appended, adds |-> adds]

\* C28: on_message_received on a record that decodes to None, to an error
\* result or to an unrecognized one leaves every field of the navigation
\* store and every deque of the averager unchanged; so does the processing
\* of an error result, in every state.
C28_DroppedRecordChangesNothing ==
    /\ [][(MessageHandled /\ parsed'.kind \in DroppedKinds) =>
              /\ nav' = nav
              /\ data' = data
              /\ appended' = appended
              /\ adds' = adds]_vars
    /\ [](process_parsed_message(nav, AveragerNow, ErrorResult, now, window, 0)
              = [nav |-> nav, avg |-> AveragerNow])

\* a record was dropped after the store and the averager had taken values
C28_Witness ==
    /\ navCall.op = "on_message_received"
    /\ parsed.kind \in DroppedKinds
    /\ nav.current_cog # 0
    /\ data["cog"] # <<>>

\* ------------------------------------------------------------------------
\* Properties of get_data_count and clear_all_data
\* ------------------------------------------------------------------------
RECURSIVE SamplesIn(_, _)
SamplesIn(d, cs) ==
    IF cs = {} THEN 0
    ELSE LET c == CHOOSE x \in cs : TRUE
         IN  Len(d[c]) + SamplesIn(d, cs \ {c})

\* the samples the channels hold
RetainedSamples(d) == SamplesIn(d, Channels)

Cleared ==
    /\ \A k \in DataKeys : data[k] = <<>>
    /\ get_data_count(data) = 0
    /\ \A c \in Channels : get_average(data, c) = <<0, 1>>

\* C29: get_data_count() is the number of samples the channels hold, after
\* any sequence of add_data calls; after clear_all_data() every deque is
\* empty, the count is 0 and every average is 0.
C29_CountIsRetainedSamples ==
    /\ [](get_data_count(data) = RetainedSamples(data))
    /\ [][(appended' # appended /\ \A c \in Channels : appended'[c] = <<>>)
              => Cleared']_vars

\* ------------------------------------------------------------------------
\* Properties of the name in a waypoint_info result
\* ------------------------------------------------------------------------
\* the bytes from offset 8 of the payload up to the first zero byte, or up
\* to the end of the payload when it has none
NameText(d) ==
    LET name_data == Slice(d, 8, Len(d))
        null_pos == FindNull(name_data, 1)
    IN  IF null_pos >= 0 THEN Slice(name_data, 0, null_pos) ELSE name_data

IsAscii(bs) == \A i \in 1..Len(bs) : bs[i] < 128

LongWaypointInfo ==
    /\ Len(raw) > 16
    /\ SelectorOf(raw) = PGN_WAYPOINT_INFO
    /\ parsed.kind = "waypoint_info"

\* C30: for a waypoint_info payload of more than 8 bytes the name is the
\* text from offset 8 up to the first zero byte, or up to the end of the
\* payload when there is none; it is WP<id> only when that text is empty
\* or is not ASCII.
C30_NameIsTextUpToTerminatorOrEnd ==
    LongWaypointInfo =>
        LET text == NameText(PayloadOf(raw))
        IN  \/ parsed.name = text
            \/ /\ parsed.name = WPName(parsed.waypoint_id)
               /\ (text = <<>> \/ ~IsAscii(text))

\* ------------------------------------------------------------------------
\* Properties of a route record without a destination longitude
\* ------------------------------------------------------------------------
ShortRouteInfo(raw_data) ==
    /\ Len(raw_data) \in {8 + 16, 8 + 17}
    /\ SelectorOf(raw_data) = PGN_ROUTE_INFO

\* C31: a route record with a payload of 16 or 17 bytes decodes to a
\* navigation_route_info result without a destination longitude, and
\* on_message_received on it leaves the stored destination_longitude as it
\* was.
C31_ShortRouteInfoKeepsLongitude ==
    [][(MessageHandled /\ ShortRouteInfo(raw')) =>
           /\ parsed'.kind = "navigation_route_info"
           /\ parsed'.destination_longitude = None
           /\ nav'.destination_longitude = nav.destination_longitude]_vars

\* ------------------------------------------------------------------------
\* Properties of the channels against the shared timestamps
\* ------------------------------------------------------------------------
\* C32: in every state of the averager the eight channels together hold no
\* more samples than the shared timestamps deque has entries.
C32_SamplesWithinTimestamps ==
    RetainedSamples(data) <= Len(data["timestamps"])

\* a cleanup has taken more samples than timestamps, and samples remain
C32_Witness ==
    /\ RetainedSamples(data) > 0
    /\ RetainedSamples(data) < Len(data["timestamps"])

\* ------------------------------------------------------------------------
\* Properties of next_waypoint_id
\* ------------------------------------------------------------------------
\* calculate_course_to_next_waypoint reaches its assignments
CourseComputed(n) ==
    /\ n.current_waypoint_id \in DOMAIN n.route_waypoints
    /\ DestinationSet(n)
    /\ NextResolves(n)

\* the id after the first occurrence of current_waypoint_id in
\* waypoint_sequence
FollowingId(n) ==
    LET seq == n.waypoint_sequence
        i == CHOOSE j \in 1..Len(seq) :
                 /\ seq[j] = n.current_waypoint_id
                 /\ \A k \in 1..(j - 1) : seq[k] # n.current_waypoint_id
    IN  seq[i + 1]

\* C33: after a call of calculate_course_to_next_waypoint that computes a
\* course, next_waypoint_id is the id that follows current_waypoint_id in
\* waypoint_sequence.
C33_NextWaypointIdFollowsCurrent ==
    [][(navCall'.op = "calculate_course_to_next_waypoint" /\ CourseComputed(nav)) =>
           nav'.next_waypoint_id = FollowingId(nav)]_vars

====
